---- MODULE Spec2Model ----
(***************************************************************************)
(* Reactive cache adapters of the client (MobxQuery, MobxMutation), the    *)
(* shared queryClient cache they drive, and the entity stores' onSuccess   *)
(* callbacks and socket handlers that write to and invalidate that cache.  *)
(*                                                                         *)
(* JavaScript runs one task at a time: every action below is one task (a   *)
(* user call, a timer, a transport response) run to completion, except the *)
(* continuation chain of a settled mutation, whose awaits are modelled as  *)
(* separate steps that nothing else may interleave (variable running).     *)
(***************************************************************************)
EXTENDS Integers, Sequences, FiniteSets, TLC

\* ------------------------------------------------------------------ bounds
MaxObservers == 2      \* reactive contexts observing one adapter at once
MaxFetches == 3        \* query function invocations per run
MaxCallers == 2        \* refetch() promises handed out per run
MaxMutations == 2      \* mutate() calls per run
MaxWrites == MaxFetches - 1    \* writes issued by all clients per run

\* ------------------------------------------------------- program constants
Retry == 1             \* queryClient defaultOptions.queries.retry

\* --------------------------------------------------------------- vocabulary
NoError == "none"
Errors == {"E1", "E2"}

Rec(i, v) == [id |-> i, v |-> v]

\* cache keys (queryKey arrays of the entity stores)
GroupsHttp == <<"groups", "http">>
GroupsWs == <<"groups", "websocket">>
RolesHttp == <<"roles", "http">>
RolesWs == <<"roles", "websocket">>
UsersHttp == <<"users", "http">>
RoleHttp == <<"role", "http">>
AccessHttp == <<"access", "http">>
AccessWs == <<"access", "websocket">>
AccessSubjectHttp == <<"access", "subject", "http">>
AccessSubjectWs == <<"access", "subject", "websocket">>
UsersWs == <<"users", "websocket">>
Keys == {GroupsHttp, GroupsWs, RolesHttp, RolesWs, UsersHttp, RoleHttp,
         AccessHttp, AccessWs, AccessSubjectHttp, AccessSubjectWs, UsersWs}

VARIABLES
    queries,      \* queryClient's QueryCache: key -> Query state
    calls,        \* query function invocations whose transport call is outstanding
    invoked,      \* key -> number of query function invocations so far
    atomObs,      \* MobxQuery.atom: adapter -> number of reactive observers
    listeners,    \* MobxQuery.observer: adapter -> QueryObserver listeners
    reactions,    \* adapter -> live options reactions
    unsubscribe,  \* MobxQuery.unsubscribe: adapter -> registration it disposes (0: noop)
    waiters,      \* pending promises returned by refetch()
    obtained,     \* caller -> what its refetch() promise resolved with
    mcalls,       \* mutate() call -> its Mutation: variables, progress, promise
    mtrack,       \* MobxMutation atom, listeners, reactions, unsubscribe
    mobserver,    \* MobxMutation.observer: current mutation and current result
    running       \* the mutate() call whose continuation is running (0: none)

qvars == <<queries, calls, invoked, atomObs, listeners, reactions, unsubscribe,
           waiters, obtained>>
mvars == <<mcalls, mtrack, mobserver, running>>

\* the server and the transports between it and this client: the lists the
\* server's database holds, the messages the server has put on this client's
\* socket (acknowledgements and notifications, delivered in order), the HTTP
\* responses on their way, and the number of writes clients have issued
VARIABLES database, socket, responses, writes

svars == <<database, socket, responses, writes>>

\* UsersListStateHttp: the modal of the users page, the record it edits (0:
\* none), the value of its form (0: blank), and the submitForm() call that
\* awaits each mutate() call
VARIABLES isModalOpen, editingUser, formData, submits

formvars == <<isModalOpen, editingUser, formData, submits>>

\* GroupsPageState.toggleAccess: what each updateAccess call toggles and the
\* group list it sends; the access records another client's Groups page
\* holds; and the groups whose toggle the server has applied
VARIABLES toggles, otherRecords, applied

accessvars == <<toggles, otherRecords, applied>>

\* GroupProfileState: the id asked for last (0: null), the record shown
\* (NoRec: null), the loading flag, the error message, and the loadGroup()
\* calls with the state of their getGroupById() request
VARIABLES groupId, group, isLoading, loadError, loads

profilevars == <<groupId, group, isLoading, loadError, loads>>

\* WebSocketApi.emit: each call with its promise, its timer, the times its
\* event was handed to the socket and what is on the wire for it
VARIABLES emits

\* the state stores of the pages, and the calls of the socket API
uvars == <<formvars, accessvars, profilevars, emits>>

\* adapters whose configProducer reads state that changes: what the producers
\* return now, the options their observers hold, the result of the last read
\* of the query adapter, and the options each mutate() call ran with; and the
\* failure answer the server gave to each mutate() call
VARIABLES config, options, lastRead, taken, answered

dvars == <<config, options, lastRead, taken, answered, uvars>>
vars == <<queries, calls, invoked, atomObs, listeners, reactions, unsubscribe,
          waiters, obtained, mcalls, mtrack, mobserver, running,
          database, socket, responses, writes,
          config, options, lastRead, taken, answered,
          toggles, otherRecords, applied,
          groupId, group, isLoading, loadError, loads, emits,
          isModalOpen, editingUser, formData, submits>>


\* no read of result has been made
NoRead == [key |-> <<>>, hasData |-> FALSE, data |-> <<>>]

\* ------------------------------------------------------------ query adapters
\* MobxQuery instances: the stores' list queries (two store instances share
\* ['groups','http']), a by-id query constructed with enabled: false, and a
\* query whose configProducer returns a key that depends on changing state
Adapters == {"getAllUsersQuery", "getAllRolesQuery", "getAllRolesQueryWs",
             "getAllGroupsQuery", "getAllGroupsQuery2", "getAllGroupsQueryWs",
             "getRoleQuery", "getAllAccessQuery", "getAllAccessQueryWs",
             "getAllUsersQueryWs", "keyedQuery"}

\* the key of an adapter's QueryObserver: the queryKey of the options it holds
AdapterKey(q) ==
    CASE q = "getAllUsersQuery" -> UsersHttp
      [] q = "getAllRolesQuery" -> RolesHttp
      [] q = "getAllRolesQueryWs" -> RolesWs
      [] q \in {"getAllGroupsQuery", "getAllGroupsQuery2"} -> GroupsHttp
      [] q = "getAllGroupsQueryWs" -> GroupsWs
      [] q = "getRoleQuery" -> RoleHttp
      [] q = "getAllAccessQuery" -> AccessHttp
      [] q = "getAllAccessQueryWs" -> AccessWs
      [] q = "getAllUsersQueryWs" -> UsersWs
      [] q = "keyedQuery" -> options.query

AdapterEnabled(q) == q # "getRoleQuery"

\* --------------------------------------------------------------- the cache
\* a query as QueryCache.build makes it; built says that the cache holds it
\* (every adapter's QueryObserver builds the query of its key when the store
\* constructs it, and gcTime removes it)
NewQuery ==
    [built |-> TRUE, hasData |-> FALSE, data |-> <<>>, invalidated |-> FALSE,
     status |-> "pending", error |-> NoError,
     fetchStatus |-> "idle", failureCount |-> 0, failureReason |-> NoError,
     retryWait |-> FALSE, retryCancelled |-> FALSE, expired |-> FALSE,
     fetchId |-> 0]

\* partialMatchKey: the filter key is a prefix of the query key
IsPrefix(p, k) ==
    /\ Len(p) <= Len(k)
    /\ \A i \in 1..Len(p) : p[i] = k[i]

\* Query.isStaleByTime
IsStale(e) == e.invalidated \/ ~e.hasData \/ e.expired

\* Query.isActive: an enabled QueryObserver is attached (it attaches with its
\* first listener and detaches with its last)
IsActive(L, k) ==
    \E q \in Adapters : AdapterKey(q) = k /\ AdapterEnabled(q) /\ L[q] # {}

HasObservers(L, k) == \E q \in Adapters : AdapterKey(q) = k /\ L[q] # {}

TotalInvoked(n) == n[GroupsHttp] + n[GroupsWs] + n[RolesHttp] + n[RolesWs]
                   + n[UsersHttp] + n[RoleHttp] + n[AccessHttp] + n[AccessWs]
                   + n[AccessSubjectHttp] + n[AccessSubjectWs] + n[UsersWs]

FreeCallId(c) == CHOOSE i \in 1..(Cardinality(c) + 1) : \A x \in c : x.id # i

\* the query function is invoked: one more outstanding transport call
InvokeQueryFn(W, k) ==
    [W EXCEPT !.c = @ \cup {[id |-> FreeCallId(W.c), key |-> k, live |-> TRUE]},
              !.n[k] = @ + 1]

CancelSilentKeepsRetryer(W, k) == [W EXCEPT !.q[k].retryWait = FALSE]

\* Query.cancel({silent: true}): the retryer is dropped, its transport call is
\* not aborted (no query function consumes the abort signal)
CancelSilent(W, k) ==
    [W EXCEPT !.c = {IF x.key = k THEN [x EXCEPT !.live = FALSE] ELSE x : x \in @},
              !.q[k].retryWait = FALSE]

\* Query.fetch, reducer 'fetch'
BeginFetchNoDedupe(W, k, cancelRefetch) ==
    LET e == W.q[k]
        W2 == [W EXCEPT !.q[k].built = TRUE,
                        !.q[k].fetchStatus = "fetching",
                        !.q[k].failureCount = 0,
                        !.q[k].failureReason = NoError,
                        !.q[k].retryWait = FALSE,
                        !.q[k].retryCancelled = FALSE,
                        !.q[k].fetchId = @ + 1,
                        !.q[k].status = IF e.hasData THEN @ ELSE "pending",
                        !.q[k].error = IF e.hasData THEN @ ELSE NoError]
    IN InvokeQueryFn(W2, k)

BeginFetch(W, k, cancelRefetch) ==
    LET e == W.q[k]
        W2 == [W EXCEPT !.q[k].built = TRUE,
                        !.q[k].fetchStatus = "fetching",
                        !.q[k].failureCount = 0,
                        !.q[k].failureReason = NoError,
                        !.q[k].retryWait = FALSE,
                        !.q[k].retryCancelled = FALSE,
                        !.q[k].fetchId = @ + 1,
                        !.q[k].status = IF e.hasData THEN @ ELSE "pending",
                        !.q[k].error = IF e.hasData THEN @ ELSE NoError]
    IN IF e.fetchStatus # "idle"
       THEN IF e.hasData /\ cancelRefetch
            THEN InvokeQueryFn(CancelSilent(W2, k), k)
            ELSE [W EXCEPT !.q[k].retryCancelled = FALSE]
       ELSE InvokeQueryFn(W2, k)

ShouldFetchOnMountIgnoringEnabled(e, enabled) == IsStale(e)

\* QueryObserver.onSubscribe -> shouldFetchOnMount
ShouldFetchOnMount(e, enabled) == enabled /\ IsStale(e)

\* queryClient.invalidateQueries({queryKey: p}): mark every query of the cache
\* that matches, then refetchQueries of the active ones with cancelRefetch true
\* (a query with an observer is in the cache)
RECURSIVE RefetchAll(_, _)
RefetchAll(W, ks) ==
    IF ks = {} THEN W
    ELSE LET k == CHOOSE x \in ks : TRUE
         IN RefetchAll(BeginFetch(W, k, TRUE), ks \ {k})

InvalidateQueriesRemovingData(W, L, p) ==
    LET hit == {k \in Keys : IsPrefix(p, k)}
        marked == [W EXCEPT !.q = [k \in Keys |->
                       IF k \in hit /\ @[k].built
                       THEN [@[k] EXCEPT !.invalidated = TRUE, !.hasData = FALSE,
                                         !.data = <<>>]
                       ELSE @[k]]]
    IN RefetchAll(marked, {k \in hit : IsActive(L, k)})

InvalidateQueriesExactKey(W, L, p) ==
    LET hit == {k \in Keys : k = p}
        marked == [W EXCEPT !.q = [k \in Keys |->
                       IF k \in hit /\ @[k].built THEN [@[k] EXCEPT !.invalidated = TRUE] ELSE @[k]]]
    IN RefetchAll(marked, {k \in hit : IsActive(L, k)})

InvalidateQueries(W, L, p) ==
    LET hit == {k \in Keys : IsPrefix(p, k)}
        marked == [W EXCEPT !.q = [k \in Keys |->
                       IF k \in hit /\ @[k].built THEN [@[k] EXCEPT !.invalidated = TRUE] ELSE @[k]]]
    IN RefetchAll(marked, {k \in hit : IsActive(L, k)})

\* Query.setData / reducer 'success' with manual: true (queryClient.setQueryData)
SetQueryData(W, k, d) ==
    [W EXCEPT !.q[k].built = TRUE, !.q[k].hasData = TRUE, !.q[k].data = d,
              !.q[k].invalidated = FALSE, !.q[k].expired = FALSE,
              !.q[k].status = "success", !.q[k].error = NoError]

World == [q |-> queries, c |-> calls, n |-> invoked]

Commit(W) ==
    /\ queries' = W.q
    /\ calls' = W.c
    /\ invoked' = W.n


Budget(W) == TotalInvoked(W.n) <= MaxFetches

\* ------------------------------------------------------------ MobxQuery
FreeReg(q) ==
    CHOOSE i \in 1..(Cardinality(listeners[q] \cup reactions[q]) + 1) :
        i \notin listeners[q] \cup reactions[q]

\* MobxQuery.startTracking, run by the atom when its first observer arrives:
\* one options reaction, one QueryObserver listener, and the closure that
\* disposes exactly these two
StartTracking(q) ==
    LET r == FreeReg(q)
        k == AdapterKey(q)
        first == listeners[q] = {}
        W == IF first /\ ShouldFetchOnMount(queries[k], AdapterEnabled(q))
             THEN BeginFetch(World, k, FALSE)
             ELSE [World EXCEPT !.q[k].built = TRUE]
    IN /\ Budget(W)
       /\ Commit(W)
       /\ reactions' = [reactions EXCEPT ![q] = @ \cup {r}]
       /\ listeners' = [listeners EXCEPT ![q] = @ \cup {r}]
       /\ unsubscribe' = [unsubscribe EXCEPT ![q] = r]

StopTrackingKeepsRegistrations(q) ==
    UNCHANGED <<listeners, reactions, queries, calls, invoked, unsubscribe>>

\* MobxQuery.stopTracking: this.unsubscribe(); the QueryObserver that loses its
\* last listener detaches from the Query, and a Query left without observers
\* lets its running fetch finish but cancels its retry (Query.removeObserver)
StopTracking(q) ==
    LET r == unsubscribe[q]
        k == AdapterKey(q)
        L == [listeners EXCEPT ![q] = @ \ {r}]
        last == listeners[q] # {} /\ L[q] = {} /\ ~HasObservers(L, k)
    IN /\ listeners' = L
       /\ reactions' = [reactions EXCEPT ![q] = @ \ {r}]
       /\ queries' = [queries EXCEPT ![k].retryCancelled =
                          IF last /\ queries[k].fetchStatus = "fetching" THEN TRUE ELSE @]
       /\ UNCHANGED <<calls, invoked, unsubscribe>>

\* a reactive context (reaction, observer component) reads result for the first
\* time: atom.reportObserved() adds it to the atom's observers
Observe(q) ==
    /\ atomObs[q] < MaxObservers
    /\ atomObs' = [atomObs EXCEPT ![q] = @ + 1]
    /\ IF atomObs[q] = 0
       THEN StartTracking(q)
       ELSE UNCHANGED <<queries, calls, invoked, listeners, reactions, unsubscribe>>
    /\ UNCHANGED <<waiters, obtained>>
    /\ running = 0
    /\ UNCHANGED mvars

\* a reactive context that read result is disposed
Unobserve(q) ==
    /\ atomObs[q] > 0
    /\ atomObs' = [atomObs EXCEPT ![q] = @ - 1]
    /\ IF atomObs[q] = 1
       THEN StopTracking(q)
       ELSE UNCHANGED <<queries, calls, invoked, listeners, reactions, unsubscribe>>
    /\ UNCHANGED <<waiters, obtained>>
    /\ running = 0
    /\ UNCHANGED mvars

\* MobxQuery.data read outside any reactive context: reportObserved does
\* nothing, result is computed, and a loading query throws fetchOptimistic's
\* promise, which joins the running fetch
ReadData(q) ==
    LET k == AdapterKey(q)
        e == queries[k]
        loading == e.fetchStatus = "fetching" /\ e.status = "pending"
        W == IF loading /\ ~e.hasData THEN BeginFetch(World, k, FALSE) ELSE World
    IN /\ Budget(W)
       /\ Commit(W)
       /\ UNCHANGED <<atomObs, listeners, reactions, unsubscribe, waiters, obtained>>
       /\ running = 0
       /\ UNCHANGED mvars

ResultThrowingOnError(q) ==
    LET e == queries[AdapterKey(q)]
    IN [outcome |-> IF e.status = "error" THEN "thrown" ELSE "returned",
        hasData |-> e.hasData, data |-> e.data,
        isPending |-> e.status = "pending",
        isLoading |-> e.status = "pending" /\ e.fetchStatus = "fetching",
        isFetching |-> e.fetchStatus = "fetching",
        isError |-> e.status = "error",
        isSuccess |-> e.status = "success",
        error |-> e.error]

\* MobxQuery.result -> QueryObserver.getOptimisticResult -> createResult: the
\* result object is computed from the entry's state; the stores' options set
\* neither throwOnError nor select, so a failed fetch is reported in the
\* object and nothing is thrown
Result(q) ==
    LET e == queries[AdapterKey(q)]
    IN [outcome |-> "returned",
        hasData |-> e.hasData, data |-> e.data,
        isPending |-> e.status = "pending",
        isLoading |-> e.status = "pending" /\ e.fetchStatus = "fetching",
        isFetching |-> e.fetchStatus = "fetching",
        isError |-> e.status = "error",
        isSuccess |-> e.status = "success",
        error |-> e.error]

\* callers take their promises in order
NextCaller ==
    LET used == {c \in 1..MaxCallers :
                    obtained[c].state # "unused" \/ \E w \in waiters : w.caller = c}
    IN Cardinality(used) + 1

RefetchOnlyWhenStale(q, c) ==
    LET k == AdapterKey(q)
        W == IF IsStale(queries[k]) THEN BeginFetch(World, k, TRUE) ELSE World
    IN /\ c = NextCaller
       /\ Budget(W)
       /\ Commit(W)
       /\ waiters' = waiters \cup {[caller |-> c, key |-> k, fetch |-> W.q[k].fetchId]}
       /\ UNCHANGED <<atomObs, listeners, reactions, unsubscribe, obtained>>
       /\ running = 0
       /\ UNCHANGED mvars

\* MobxQuery.refetch -> QueryObserver.refetch: fetch with cancelRefetch true;
\* the caller holds the returned promise
Refetch(q, c) ==
    LET k == AdapterKey(q)
        W == BeginFetch(World, k, TRUE)
    IN /\ c = NextCaller
       /\ Budget(W)
       /\ Commit(W)
       /\ waiters' = waiters \cup {[caller |-> c, key |-> k, fetch |-> W.q[k].fetchId]}
       /\ UNCHANGED <<atomObs, listeners, reactions, unsubscribe, obtained>>
       /\ running = 0
       /\ UNCHANGED mvars

ResultOfWithoutError(e, k, f) ==
    [state |-> "resolved", key |-> k, fetch |-> f, hasData |-> e.hasData, data |-> e.data,
     isError |-> FALSE, error |-> NoError]

\* the result a settled refetch() promise carries (QueryObserver.fetch never
\* rejects: throwOnError is not set)
ResultOf(e, k, f) ==
    [state |-> "resolved", key |-> k, fetch |-> f, hasData |-> e.hasData, data |-> e.data,
     isError |-> e.status = "error", error |-> e.error]

Unused == [state |-> "unused", key |-> <<>>, fetch |-> 0, hasData |-> FALSE, data |-> <<>>,
           isError |-> FALSE, error |-> NoError]

\* every promise waiting on key k settles with the query's state
SettleWaiters(k, e) ==
    /\ waiters' = {w \in waiters : w.key # k}
    /\ obtained' = [c \in DOMAIN obtained |->
                      IF \E w \in waiters : w.caller = c /\ w.key = k
                      THEN ResultOf(e, k, (CHOOSE w \in waiters : w.caller = c).fetch)
                      ELSE obtained[c]]

\* the promises of a fetch that a later refetch cancelled settle together,
\* with the result the observer holds at that moment (they may instead stay
\* attached and settle with the fetch that replaced theirs: SettleWaiters)
CancelledWaitersSettle(k, f) ==
    LET gone == {w \in waiters : w.key = k /\ w.fetch = f}
    IN /\ gone # {}
       /\ f # queries[k].fetchId
       /\ waiters' = waiters \ gone
       /\ obtained' = [c \in DOMAIN obtained |->
                         IF \E w \in gone : w.caller = c
                         THEN ResultOf(queries[k], k, f)
                         ELSE obtained[c]]
       /\ UNCHANGED <<queries, calls, invoked, atomObs, listeners, reactions, unsubscribe>>
       /\ running = 0
       /\ UNCHANGED mvars

DeliverDataMarkingStale(x, d) ==
    LET k == x.key
        e == [queries[k] EXCEPT !.hasData = TRUE, !.data = d,
                                !.invalidated = TRUE, !.expired = FALSE,
                                !.status = "success", !.error = NoError,
                                !.fetchStatus = "idle", !.failureCount = 0,
                                !.failureReason = NoError, !.retryCancelled = FALSE]
    IN /\ x \in calls
       /\ calls' = calls \ {x}
       /\ IF x.live
          THEN /\ queries' = [queries EXCEPT ![k] = e]
               /\ SettleWaiters(k, e)
          ELSE UNCHANGED <<queries, waiters, obtained>>
       /\ UNCHANGED <<invoked, atomObs, listeners, reactions, unsubscribe>>
       /\ running = 0
       /\ UNCHANGED mvars

\* the transport call of a query function resolves with list d
\* (reducer 'success'); the result of a cancelled fetch is dropped
DeliverData(x, d) ==
    LET k == x.key
        e == [queries[k] EXCEPT !.hasData = TRUE, !.data = d,
                                !.invalidated = FALSE, !.expired = FALSE,
                                !.status = "success", !.error = NoError,
                                !.fetchStatus = "idle", !.failureCount = 0,
                                !.failureReason = NoError, !.retryCancelled = FALSE]
    IN /\ x \in calls
       /\ calls' = calls \ {x}
       /\ IF x.live
          THEN /\ queries' = [queries EXCEPT ![k] = e]
               /\ SettleWaiters(k, e)
          ELSE UNCHANGED <<queries, waiters, obtained>>
       /\ UNCHANGED <<invoked, atomObs, listeners, reactions, unsubscribe>>
       /\ running = 0
       /\ UNCHANGED mvars

\* reducer 'error': the fetch has failed for good
FailQuery(e, err) ==
    [e EXCEPT !.status = "error", !.error = err, !.fetchStatus = "idle",
              !.failureCount = @ + 1, !.failureReason = err,
              !.retryWait = FALSE, !.retryCancelled = FALSE]

\* the transport call of a query function fails with err (a failure envelope,
\* an HTTP error status, a socket timeout): the retryer retries while
\* failureCount < retry and the retry is not cancelled
DeliverError(x, err) ==
    LET k == x.key
        e == queries[k]
        again == e.failureCount < Retry /\ ~e.retryCancelled
    IN /\ x \in calls
       /\ calls' = calls \ {x}
       /\ IF ~x.live
          THEN UNCHANGED <<queries, waiters, obtained>>
          ELSE IF again
               THEN /\ queries' = [queries EXCEPT ![k].failureCount = @ + 1,
                                                  ![k].failureReason = err,
                                                  ![k].retryWait = TRUE]
                    /\ UNCHANGED <<waiters, obtained>>
               ELSE /\ queries' = [queries EXCEPT ![k] = FailQuery(e, err)]
                    /\ SettleWaiters(k, FailQuery(e, err))
       /\ UNCHANGED <<invoked, atomObs, listeners, reactions, unsubscribe>>
       /\ running = 0
       /\ UNCHANGED mvars

\* the retry delay is over: the query function runs again, unless the retry
\* was cancelled meanwhile
RetryTimer(k) ==
    LET e == queries[k]
        W == InvokeQueryFn([World EXCEPT !.q[k].retryWait = FALSE], k)
    IN /\ e.retryWait
       /\ IF e.retryCancelled
          THEN /\ queries' = [queries EXCEPT ![k] =
                                 [FailQuery(e, e.failureReason) EXCEPT !.failureCount = e.failureCount]]
               /\ SettleWaiters(k, [FailQuery(e, e.failureReason) EXCEPT !.failureCount = e.failureCount])
               /\ UNCHANGED <<calls, invoked>>
          ELSE /\ Budget(W)
               /\ Commit(W)
               /\ UNCHANGED <<waiters, obtained>>
       /\ UNCHANGED <<atomObs, listeners, reactions, unsubscribe>>
       /\ running = 0
       /\ UNCHANGED mvars

\* staleTime (5 minutes) passes since the data was written
StaleTimeElapses(k) ==
    /\ queries[k].hasData
    /\ ~queries[k].expired
    /\ queries' = [queries EXCEPT ![k].expired = TRUE]
    /\ UNCHANGED <<calls, invoked, atomObs, listeners, reactions, unsubscribe,
                   waiters, obtained>>
    /\ running = 0
    /\ UNCHANGED mvars

\* gcTime (10 minutes) passes since key k lost its last observer: an idle
\* entry without observers is removed from the cache (Query.optionalRemove),
\* and the next use of the key builds a new one (fetchId, the model's
\* numbering of the key's fetches, goes on)
GcTimeElapses(k) ==
    /\ ~HasObservers(listeners, k)
    /\ queries[k].fetchStatus = "idle"
    /\ queries[k].built
    /\ queries' = [queries EXCEPT ![k] = [NewQuery EXCEPT !.built = FALSE,
                                                          !.fetchId = queries[k].fetchId]]
    /\ UNCHANGED <<calls, invoked, atomObs, listeners, reactions, unsubscribe,
                   waiters, obtained>>
    /\ running = 0
    /\ UNCHANGED mvars

OnRolesEventGroupsOnly ==
    LET W == InvalidateQueries(World, listeners, <<"groups">>)
    IN /\ Budget(W)
       /\ Commit(W)
       /\ UNCHANGED <<atomObs, listeners, reactions, unsubscribe, waiters, obtained>>
       /\ running = 0
       /\ UNCHANGED mvars

\* RolesEntityWebSocket.subscribeToEvents: the handler of 'roles:created',
\* 'roles:updated' and 'roles:deleted'
OnRolesEvent ==
    LET W == InvalidateQueries(InvalidateQueries(World, listeners, RolesWs),
                               listeners, <<"groups">>)
    IN /\ Budget(W)
       /\ Commit(W)
       /\ UNCHANGED <<atomObs, listeners, reactions, unsubscribe, waiters, obtained>>
       /\ running = 0
       /\ UNCHANGED mvars

OnUsersEventWritingList ==
    /\ Commit(SetQueryData(World, UsersWs, <<>>))
    /\ UNCHANGED <<atomObs, listeners, reactions, unsubscribe, waiters, obtained>>
    /\ running = 0
    /\ UNCHANGED mvars

\* UsersEntityWebSocket.subscribeToEvents: the handler of 'users:created',
\* 'users:updated' and 'users:deleted'
OnUsersEvent ==
    LET W == InvalidateQueries(World, listeners, UsersWs)
    IN /\ Budget(W)
       /\ Commit(W)
       /\ UNCHANGED <<atomObs, listeners, reactions, unsubscribe, waiters, obtained>>
       /\ running = 0
       /\ UNCHANGED mvars

\* GroupsEntityWebSocket.subscribeToEvents: the handler of 'groups:created',
\* 'groups:updated' and 'groups:deleted'
OnGroupsEvent ==
    LET W == InvalidateQueries(World, listeners, GroupsWs)
    IN /\ Budget(W)
       /\ Commit(W)
       /\ UNCHANGED <<atomObs, listeners, reactions, unsubscribe, waiters, obtained>>
       /\ running = 0
       /\ UNCHANGED mvars

\* AccessEntityWebSocket.subscribeToEvents: the handler of 'access:updated'
OnAccessEvent ==
    LET W == InvalidateQueries(World, listeners, AccessWs)
    IN /\ Budget(W)
       /\ Commit(W)
       /\ UNCHANGED <<atomObs, listeners, reactions, unsubscribe, waiters, obtained>>
       /\ running = 0
       /\ UNCHANGED mvars

\* ------------------------------------------------------------ entity stores
Stores == {"usersHttp", "usersWs", "rolesHttp", "rolesWs", "groupsHttp", "groupsWs",
           "accessHttp"}
Ops == {"create", "update", "delete"}
Mutations == [store : Stores, op : Ops]

\* the list key each store's onSuccess callbacks write
StoreKey(s) ==
    CASE s = "usersHttp" -> UsersHttp
      [] s = "usersWs" -> UsersWs
      [] s = "accessHttp" -> AccessHttp
      [] s = "rolesHttp" -> RolesHttp
      [] s = "rolesWs" -> RolesWs
      [] s = "groupsHttp" -> GroupsHttp
      [] s = "groupsWs" -> GroupsWs

ListAfterCreatePrepending(old, rec) == <<rec>> \o old

\* (old = []) => [...old, newRecord]
ListAfterCreate(old, rec) == Append(old, rec)

\* (old = []) => old.map((r) => r.id === updated.id ? updated : r)
ListAfterUpdate(old, rec) ==
    [i \in 1..Len(old) |-> IF old[i].id = rec.id THEN rec ELSE old[i]]

\* (old = []) => old.filter((r) => r.id !== data.id)
ListAfterDelete(old, rec) == SelectSeq(old, LAMBDA r : r.id # rec.id)

\* the updater's default parameter: an absent list counts as empty
OldList(e) == IF e.hasData THEN e.data ELSE <<>>

Updated(m, old, rec) ==
    CASE m.op = "create" -> ListAfterCreate(old, rec)
      [] m.op = "update" -> ListAfterUpdate(old, rec)
      [] m.op = "delete" -> ListAfterDelete(old, rec)

InvalidatedByUsersAndAccessToo(m) ==
    IF m.store \in {"rolesHttp", "rolesWs"} /\ m.op \in {"update", "delete"}
    THEN {<<"groups">>}
    ELSE IF m.store \in {"groupsHttp", "groupsWs"}
         THEN {<<"access">>}
         ELSE {<<StoreKey(m.store)[1]>>}

InvalidatedByWithOwnList(m) == {<<StoreKey(m.store)[1]>>}

InvalidatedByRolesOnly(m) ==
    IF m.store \in {"rolesHttp", "rolesWs"} /\ m.op \in {"update", "delete"}
    THEN {<<"groups">>}
    ELSE {}

InvalidatedByDeleteOnly(m) ==
    IF m.store \in {"rolesHttp", "rolesWs"} /\ m.op = "delete"
    THEN {<<"groups">>}
    ELSE {}

\* the key prefixes a mutation's onSuccess invalidates: the role stores'
\* update and delete invalidate ['groups'], every mutation of the group
\* stores invalidates ['access'], the role stores' create, every user
\* mutation and the access update invalidate nothing
InvalidatedBy(m) ==
    IF m.store \in {"rolesHttp", "rolesWs"} /\ m.op \in {"update", "delete"}
    THEN {<<"groups">>}
    ELSE IF m.store \in {"groupsHttp", "groupsWs"}
         THEN {<<"access">>}
         ELSE {}

RECURSIVE InvalidateAll(_, _, _)
InvalidateAll(W, L, ps) ==
    IF ps = {} THEN W
    ELSE LET p == CHOOSE x \in ps : TRUE
         IN InvalidateAll(InvalidateQueries(W, L, p), L, ps \ {p})

\* the onSuccess callback of mutation m, called with the mutation's result
OnSuccess(m, W, L, rec) ==
    LET k == StoreKey(m.store)
        W1 == SetQueryData(W, k, Updated(m, OldList(W.q[k]), rec))
    IN InvalidateAll(W1, L, InvalidatedBy(m))

\* ---------------------------------------------------------- MobxMutation
NoRec == Rec(0, 0)

IdleResult == [status |-> "idle", data |-> NoRec, error |-> NoError]

UnusedCall ==
    [m |-> [store |-> "usersHttp", op |-> "create"], arg |-> 0, pc |-> "unused",
     data |-> NoRec, error |-> NoError, onSuccessRuns |-> 0,
     promise |-> "none", value |-> NoRec, reason |-> NoError]

\* Mutation.state as MutationObserver.#updateResult reads it
MutationState(x) ==
    CASE x.pc = "settled" /\ x.error = NoError ->
             [status |-> "success", data |-> x.data, error |-> NoError]
      [] x.pc = "settled" /\ x.error # NoError ->
             [status |-> "error", data |-> NoRec, error |-> x.error]
      [] OTHER -> [status |-> "pending", data |-> NoRec, error |-> NoError]

NextCall ==
    Cardinality({c \in DOMAIN mcalls : mcalls[c].pc # "unused"}) + 1

MutateCancellingPending(m, arg) ==
    LET c == NextCall
    IN /\ running = 0
       /\ c \in DOMAIN mcalls
       /\ (m.op = "create") = (arg = 0)
       /\ mcalls' = [d \in DOMAIN mcalls |->
                        IF d = c
                        THEN [UnusedCall EXCEPT !.m = m, !.arg = arg, !.pc = "sent",
                                                !.promise = "pending"]
                        ELSE IF mcalls[d].m = m /\ mcalls[d].pc = "sent"
                             THEN [mcalls[d] EXCEPT !.pc = "settled", !.promise = "rejected",
                                                    !.reason = "E1"]
                             ELSE mcalls[d]]
       /\ mobserver' = [mobserver EXCEPT ![m] =
                           [current |-> c, attached |-> TRUE,
                            result |-> [status |-> "pending", data |-> NoRec,
                                        error |-> NoError]]]
       /\ UNCHANGED <<mtrack, running>>
       /\ UNCHANGED qvars

MutateKeepingPending(m, arg) ==
    LET c == NextCall
    IN /\ running = 0
       /\ c \in DOMAIN mcalls
       /\ (m.op = "create") = (arg = 0)
       /\ mcalls' = [mcalls EXCEPT ![c] =
                        [UnusedCall EXCEPT !.m = m, !.arg = arg, !.pc = "sent",
                                           !.promise = "pending"]]
       /\ mobserver' = [mobserver EXCEPT ![m] =
                           IF @.attached /\ @.result.status = "pending"
                           THEN @
                           ELSE [current |-> c, attached |-> TRUE,
                                 result |-> [status |-> "pending", data |-> NoRec,
                                             error |-> NoError]]]
       /\ UNCHANGED <<mtrack, running>>
       /\ UNCHANGED qvars

\* MobxMutation.mutate -> MutationObserver.mutate: the observer leaves its
\* previous mutation, builds a new one, attaches to it and executes it; the
\* mutation function sends its request
Mutate(m, arg) ==
    LET c == NextCall
    IN /\ running = 0
       /\ c \in DOMAIN mcalls
       /\ (m.op = "create") = (arg = 0)
       /\ mcalls' = [mcalls EXCEPT ![c] =
                        [UnusedCall EXCEPT !.m = m, !.arg = arg, !.pc = "sent",
                                           !.promise = "pending"]]
       /\ mobserver' = [mobserver EXCEPT ![m] =
                           [current |-> c, attached |-> TRUE,
                            result |-> [status |-> "pending", data |-> NoRec,
                                        error |-> NoError]]]
       /\ UNCHANGED <<mtrack, running>>
       /\ UNCHANGED qvars

\* the transport answers with a success envelope: the mutation function
\* returns its data and the continuation of Mutation.execute starts
MutationFnResolves(c, rec) ==
    /\ running = 0
    /\ mcalls[c].pc = "sent"
    /\ IF mcalls[c].m.op = "create" THEN mcalls[c].arg = 0 ELSE rec.id = mcalls[c].arg
    /\ mcalls' = [mcalls EXCEPT ![c].pc = "fnResolved", ![c].data = rec]
    /\ running' = c
    /\ UNCHANGED <<mtrack, mobserver>>
    /\ UNCHANGED qvars

\* the transport answers with a failure envelope or fails: the mutation
\* function throws Error(err); mutations are not retried (mutations.retry is 0)
MutationFnRejects(c, err) ==
    /\ running = 0
    /\ mcalls[c].pc = "sent"
    /\ mcalls' = [mcalls EXCEPT ![c].pc = "fnRejected", ![c].error = err]
    /\ running' = c
    /\ UNCHANGED <<mtrack, mobserver>>
    /\ UNCHANGED qvars

RunCallbacksOnFailureToo(c) ==
    LET x == mcalls[c]
        W == OnSuccess(x.m, World, listeners, x.data)
    IN /\ running = c
       /\ x.pc \in {"fnResolved", "fnRejected"}
       /\ Budget(W)
       /\ Commit(W)
       /\ mcalls' = [mcalls EXCEPT ![c].pc = "callbackDone",
                                   ![c].onSuccessRuns = @ + 1]
       /\ UNCHANGED <<atomObs, listeners, reactions, unsubscribe, waiters, obtained>>
       /\ UNCHANGED <<mtrack, mobserver, running>>

\* Mutation.execute awaits options.onSuccess(data, variables) after the
\* mutation function resolved; no store supplies onError
RunCallbacks(c) ==
    LET x == mcalls[c]
        W == IF x.pc = "fnResolved"
             THEN OnSuccess(x.m, World, listeners, x.data)
             ELSE World
    IN /\ running = c
       /\ x.pc \in {"fnResolved", "fnRejected"}
       /\ Budget(W)
       /\ Commit(W)
       /\ mcalls' = [mcalls EXCEPT ![c].pc = "callbackDone",
                                   ![c].onSuccessRuns =
                                       IF x.pc = "fnResolved" THEN @ + 1 ELSE @]
       /\ UNCHANGED <<atomObs, listeners, reactions, unsubscribe, waiters, obtained>>
       /\ UNCHANGED <<mtrack, mobserver, running>>

SettleBeforeCallbacks(c) ==
    LET x == [mcalls[c] EXCEPT !.pc = "settled",
                               !.promise = IF mcalls[c].error = NoError
                                           THEN "resolved" ELSE "rejected",
                               !.value = mcalls[c].data,
                               !.reason = mcalls[c].error]
    IN /\ running = c
       /\ mcalls[c].pc \in {"fnResolved", "fnRejected", "callbackDone"}
       /\ mcalls' = [mcalls EXCEPT ![c] = x]
       /\ mobserver' = [mobserver EXCEPT ![x.m].result =
                           IF mobserver[x.m].current = c /\ mobserver[x.m].attached
                           THEN MutationState(x) ELSE @]
       /\ running' = 0
       /\ UNCHANGED mtrack
       /\ UNCHANGED qvars

\* Mutation.execute dispatches 'success' or 'error' and returns the data or
\* throws the error: the promise of mutate() settles; the observer updates
\* its result if it is still attached to this mutation
SettleMutation(c) ==
    LET x == [mcalls[c] EXCEPT !.pc = "settled",
                               !.promise = IF mcalls[c].error = NoError
                                           THEN "resolved" ELSE "rejected",
                               !.value = mcalls[c].data,
                               !.reason = mcalls[c].error]
    IN /\ running = c
       /\ mcalls[c].pc = "callbackDone"
       /\ mcalls' = [mcalls EXCEPT ![c] = x]
       /\ mobserver' = [mobserver EXCEPT ![x.m].result =
                           IF mobserver[x.m].current = c /\ mobserver[x.m].attached
                           THEN MutationState(x) ELSE @]
       /\ running' = 0
       /\ UNCHANGED mtrack
       /\ UNCHANGED qvars

ResetClearingList(m) ==
    /\ running = 0
    /\ mobserver[m] # [current |-> 0, attached |-> FALSE, result |-> IdleResult]
    /\ mobserver' = [mobserver EXCEPT ![m] =
                        [current |-> 0, attached |-> FALSE, result |-> IdleResult]]
    /\ queries' = [queries EXCEPT ![StoreKey(m.store)] =
                      [NewQuery EXCEPT !.fetchId = queries[StoreKey(m.store)].fetchId,
                                       !.fetchStatus = queries[StoreKey(m.store)].fetchStatus]]
    /\ UNCHANGED <<mcalls, mtrack, running>>
    /\ UNCHANGED <<calls, invoked, atomObs, listeners, reactions, unsubscribe,
                   waiters, obtained>>

\* MobxMutation.reset -> MutationObserver.reset: the observer leaves its
\* mutation and takes the default (idle) state
Reset(m) ==
    /\ running = 0
    /\ mobserver[m] # [current |-> 0, attached |-> FALSE, result |-> IdleResult]
    /\ mobserver' = [mobserver EXCEPT ![m] =
                        [current |-> 0, attached |-> FALSE, result |-> IdleResult]]
    /\ UNCHANGED <<mcalls, mtrack, running>>
    /\ UNCHANGED qvars

\* MobxMutation.result -> MutationObserver.getCurrentResult: the result
\* object the observer stored at its last update
MutationResult(m) ==
    LET r == mobserver[m].result
    IN [outcome |-> "returned",
        data |-> r.data,
        isIdle |-> r.status = "idle",
        isPending |-> r.status = "pending",
        isError |-> r.status = "error",
        isSuccess |-> r.status = "success",
        error |-> r.error]

FreeMReg(t) ==
    CHOOSE i \in 1..(Cardinality(t.listeners \cup t.reactions) + 1) :
        i \notin t.listeners \cup t.reactions

\* MobxMutation.startTracking
StartTrackingMutation(t) ==
    LET r == FreeMReg(t)
    IN [t EXCEPT !.listeners = @ \cup {r}, !.reactions = @ \cup {r}, !.unsubscribe = r]

\* MobxMutation.stopTracking
StopTrackingMutation(t) ==
    [t EXCEPT !.listeners = @ \ {t.unsubscribe}, !.reactions = @ \ {t.unsubscribe}]

\* a reactive context reads a status getter of the mutation adapter
ObserveMutation(m) ==
    LET t == [mtrack[m] EXCEPT !.atomObs = @ + 1]
    IN /\ running = 0
       /\ mtrack[m].atomObs < MaxObservers
       /\ mtrack' = [mtrack EXCEPT ![m] =
                        IF mtrack[m].atomObs = 0 THEN StartTrackingMutation(t) ELSE t]
       /\ UNCHANGED <<mcalls, mobserver, running>>
       /\ UNCHANGED qvars

\* that reactive context is disposed; a MutationObserver that loses its last
\* listener removes itself from its current mutation
\* (MutationObserver.onUnsubscribe)
UnobserveMutation(m) ==
    LET t == [mtrack[m] EXCEPT !.atomObs = @ - 1]
        t2 == IF mtrack[m].atomObs = 1 THEN StopTrackingMutation(t) ELSE t
    IN /\ running = 0
       /\ mtrack[m].atomObs > 0
       /\ mtrack' = [mtrack EXCEPT ![m] = t2]
       /\ mobserver' = [mobserver EXCEPT ![m].attached =
                           IF mtrack[m].listeners # {} /\ t2.listeners = {} THEN FALSE ELSE @]
       /\ UNCHANGED <<mcalls, running>>
       /\ UNCHANGED qvars

\* ------------------------------------------------- reactive configurations
\* the keys the configProducer of the keyed query may return, and the
\* versions of {mutationFn, onSuccess} the configProducer of a mutation may
\* return
DKeys == {GroupsHttp, GroupsWs}
DVersions == {1, 2}

\* the mutation adapter whose configProducer reads changing state
DMutation == [store |-> "groupsHttp", op |-> "create"]

\* QueryObserver.setOptions with key k on adapter q: the observer moves to the
\* query of k; if it has listeners, the query it leaves may be left without
\* observers, which cancels its retry, and the query it joins is fetched if
\* it is stale (shouldFetchOptionally)
SetOptions(W, L, q, k) ==
    LET old == AdapterKey(q)
        moves == L[q] # {} /\ k # old
        leaves == moves /\ ~\E q2 \in Adapters \ {q} : AdapterKey(q2) = old /\ L[q2] # {}
        W1 == [W EXCEPT !.q[old].retryCancelled =
                   IF leaves /\ W.q[old].fetchStatus = "fetching" THEN TRUE ELSE @,
                        !.q[k].built = TRUE]
    IN IF moves /\ AdapterEnabled(q) /\ IsStale(W.q[k])
       THEN BeginFetch(W1, k, FALSE)
       ELSE W1

\* what getOptimisticResult hands back for key k
ResultAt(W, k) == [key |-> k, hasData |-> W.q[k].hasData, data |-> W.q[k].data]

ReadResultWithHeldOptions(q) ==
    /\ lastRead' = ResultAt(World, AdapterKey(q))
    /\ lastRead' # lastRead
    /\ UNCHANGED <<config, options, taken, answered, uvars>>
    /\ UNCHANGED qvars
    /\ running = 0
    /\ UNCHANGED mvars

\* MobxQuery.result read by a caller that is no reactive context, or by one
\* that observes the adapter already: the options configProducer returns now
\* are passed to the observer and the result is computed for them
ReadResult(q) ==
    LET W == SetOptions(World, listeners, q, config.query)
    IN /\ Budget(W)
       /\ Commit(W)
       /\ options' = [options EXCEPT !.query = config.query]
       /\ lastRead' = ResultAt(W, config.query)
       /\ UNCHANGED <<config, taken, answered, uvars>>
       /\ UNCHANGED <<atomObs, listeners, reactions, unsubscribe, waiters, obtained>>
       /\ running = 0
       /\ UNCHANGED mvars

\* MobxQuery.result read for the first time by a reactive context:
\* atom.reportObserved() runs startTracking for the atom's first observer
\* (the observer subscribes with the options it holds), then the options
\* configProducer returns now are passed to the observer and the result is
\* computed for them
ObserveResult(q) ==
    LET first == atomObs[q] = 0
        r == FreeReg(q)
        held == AdapterKey(q)
        L == IF first THEN [listeners EXCEPT ![q] = @ \cup {r}] ELSE listeners
        W0 == IF first /\ listeners[q] = {}
                       /\ ShouldFetchOnMount(queries[held], AdapterEnabled(q))
              THEN BeginFetch(World, held, FALSE)
              ELSE World
        W == SetOptions(W0, L, q, config.query)
    IN /\ atomObs[q] < MaxObservers
       /\ atomObs' = [atomObs EXCEPT ![q] = @ + 1]
       /\ Budget(W)
       /\ Commit(W)
       /\ listeners' = L
       /\ reactions' = IF first THEN [reactions EXCEPT ![q] = @ \cup {r}] ELSE reactions
       /\ unsubscribe' = IF first THEN [unsubscribe EXCEPT ![q] = r] ELSE unsubscribe
       /\ options' = [options EXCEPT !.query = config.query]
       /\ lastRead' = ResultAt(W, config.query)
       /\ UNCHANGED <<config, taken, answered, uvars>>
       /\ UNCHANGED <<waiters, obtained>>
       /\ running = 0
       /\ UNCHANGED mvars

\* the state the configProducer of query adapter q reads changes, and the
\* producer now returns key k; if the state is a MobX observable and the
\* adapter is tracked, its options reaction passes the new options to the
\* observer
QueryConfigChanges(q, k, observable) ==
    LET reacts == observable /\ reactions[q] # {}
        W == IF reacts THEN SetOptions(World, listeners, q, k) ELSE World
    IN /\ k # config.query
       /\ config' = [config EXCEPT !.query = k]
       /\ options' = IF reacts THEN [options EXCEPT !.query = k] ELSE options
       /\ Budget(W)
       /\ Commit(W)
       /\ UNCHANGED <<lastRead, taken, answered, uvars>>
       /\ UNCHANGED <<atomObs, listeners, reactions, unsubscribe, waiters, obtained>>
       /\ running = 0
       /\ UNCHANGED mvars

\* the same for the configProducer of the mutation adapter, which now
\* returns version v of {mutationFn, onSuccess}
MutationConfigChanges(v, observable) ==
    LET reacts == observable /\ mtrack[DMutation].reactions # {}
    IN /\ v # config.mutation
       /\ config' = [config EXCEPT !.mutation = v]
       /\ options' = IF reacts THEN [options EXCEPT !.mutation = v] ELSE options
       /\ UNCHANGED <<lastRead, taken, answered, uvars>>
       /\ UNCHANGED qvars
       /\ running = 0
       /\ UNCHANGED mvars

\* MobxMutation.mutate -> MutationObserver.mutate: the mutation is built with
\* the options the observer holds
MutateConfigured ==
    /\ Mutate(DMutation, 0)
    /\ taken' = [taken EXCEPT ![NextCall] = options.mutation]
    /\ UNCHANGED <<config, options, lastRead, answered, uvars>>

\* ------------------------------------------------------- server and socket
\* the entities whose lists the server model keeps
Entities == {"roles", "access"}

EntityOf(k) == k[1]

Transport(k) == k[Len(k)]

Msg(type, call, entity, data) == [type |-> type, call |-> call, entity |-> entity, data |-> data]

\* the request of a call is with the server or its answer is on its way
Answered(type, id) ==
    \/ \E i \in 1..Len(socket) : socket[i].type = type /\ socket[i].call = id
    \/ \E r \in responses : r.type = type /\ r.call = id

\* an answer goes back on the transport the request came by
Reply(k, msg) ==
    IF Transport(k) = "websocket"
    THEN /\ socket' = Append(socket, msg)
         /\ UNCHANGED responses
    ELSE /\ responses' = responses \cup {msg}
         /\ UNCHANGED socket

\* the 'roles:getAll' / 'access:getAll' handler and the GET list route: the
\* server answers the request of call x with the list its database holds
ServerGetAll(x) ==
    /\ x \in calls
    /\ EntityOf(x.key) \in Entities
    /\ ~Answered("ack", x.id)
    /\ Reply(x.key, Msg("ack", x.id, EntityOf(x.key), database[EntityOf(x.key)]))
    /\ UNCHANGED <<database, writes>>
    /\ UNCHANGED qvars
    /\ UNCHANGED mvars

\* the id the database gives a created record
NewId(list) ==
    IF list = <<>> THEN 1
    ELSE 1 + (CHOOSE n \in {list[i].id : i \in 1..Len(list)} :
                  \A j \in 1..Len(list) : list[j].id <= n)

\* ids of the records other clients update and delete
WrittenIds == {1}

\* what a write of another client makes of the server's list: a created
\* record, an updated one, or one record less
Written(list) ==
    {Append(list, Rec(NewId(list), 1))}
        \cup {ListAfterUpdate(list, Rec(i, 2)) : i \in WrittenIds}
        \cup {ListAfterDelete(list, Rec(i, 0)) : i \in WrittenIds}

\* another client writes entity X over HTTP or WebSocket: the server applies
\* the write and then emits the notification to every socket (io.emit)
ServerWrite(X, list) ==
    /\ writes < MaxWrites
    /\ writes' = writes + 1
    /\ list # database[X]
    /\ database' = [database EXCEPT ![X] = list]
    /\ socket' = Append(socket, Msg("event", 0, X, <<>>))
    /\ UNCHANGED responses
    /\ UNCHANGED qvars
    /\ UNCHANGED mvars

\* a create of this client reaches the server: it appends the record,
\* acknowledges with it and then emits the notification
ServerCreate(c) ==
    LET X == EntityOf(StoreKey(mcalls[c].m.store))
        rec == Rec(NewId(database[X]), 1)
    IN /\ mcalls[c].pc = "sent"
       /\ mcalls[c].m.op = "create"
       /\ X \in Entities
       /\ ~Answered("mack", c)
       /\ database' = [database EXCEPT ![X] = Append(@, rec)]
       /\ IF Transport(StoreKey(mcalls[c].m.store)) = "websocket"
          THEN /\ socket' = socket \o <<Msg("mack", c, X, <<rec>>), Msg("event", 0, X, <<>>)>>
               /\ UNCHANGED responses
          ELSE /\ socket' = Append(socket, Msg("event", 0, X, <<>>))
               /\ responses' = responses \cup {Msg("mack", c, X, <<rec>>)}
       /\ UNCHANGED writes
       /\ UNCHANGED qvars
       /\ UNCHANGED mvars

\* this client issues a create (counted among the writes of all clients)
ClientCreates(m) ==
    /\ writes < MaxWrites
    /\ writes' = writes + 1
    /\ Mutate(m, 0)
    /\ UNCHANGED <<database, socket, responses>>

\* the notification handler the client registered for entity X
OnEvent(X) ==
    CASE X = "roles" -> OnRolesEvent
      [] X = "access" -> OnAccessEvent

\* the socket hands the client its next message: the acknowledgement of a
\* list request, the acknowledgement of a mutation, or a notification
SocketDeliversAck ==
    /\ socket # <<>>
    /\ Head(socket).type = "ack"
    /\ \E x \in calls : x.id = Head(socket).call /\ DeliverData(x, Head(socket).data)
    /\ socket' = Tail(socket)
    /\ UNCHANGED <<database, responses, writes>>

SocketDeliversMutationAck ==
    /\ socket # <<>>
    /\ Head(socket).type = "mack"
    /\ MutationFnResolves(Head(socket).call, Head(socket).data[1])
    /\ socket' = Tail(socket)
    /\ UNCHANGED <<database, responses, writes>>

SocketDeliversEvent ==
    /\ socket # <<>>
    /\ Head(socket).type = "event"
    /\ OnEvent(Head(socket).entity)
    /\ socket' = Tail(socket)
    /\ UNCHANGED <<database, responses, writes>>

\* an HTTP response arrives, in any order
HttpDelivers(r) ==
    /\ r \in responses
    /\ responses' = responses \ {r}
    /\ IF r.type = "ack"
       THEN \E x \in calls : x.id = r.call /\ DeliverData(x, r.data)
       ELSE MutationFnResolves(r.call, r.data[1])
    /\ UNCHANGED <<database, socket, writes>>


\* ------------------------------------------------ failure answers of writes
\* no answer received
NoAnswer == [status |-> 0, body |-> [success |-> TRUE, error |-> NoError]]

\* the server's answer to a write that failed: an envelope {success: false,
\* error}, over HTTP with the status the controller sets, over the socket as
\* the acknowledgement (which has no status)
Failure(status, error) == [status |-> status, body |-> [success |-> FALSE, error |-> error]]

\* UsersController.create/update over HTTP; the roles:create and roles:update
\* handlers over the socket ("E1" stands for the message of an exception the
\* service threw)
FailureAnswers(m) ==
    CASE Transport(StoreKey(m.store)) = "http" /\ m.op = "create" ->
             {Failure(400, "Name and email are required"), Failure(500, "E1")}
      [] Transport(StoreKey(m.store)) = "http" /\ m.op # "create" ->
             {Failure(400, "Invalid user ID"), Failure(404, "User not found"),
              Failure(500, "E1")}
      [] Transport(StoreKey(m.store)) = "websocket" /\ m.op = "create" ->
             {Failure(0, "E1")}
      [] OTHER -> {Failure(0, "Role not found"), Failure(0, "E1")}

\* Response.statusText of the statuses the controllers set
StatusText(status) ==
    CASE status = 400 -> "Bad Request"
      [] status = 404 -> "Not Found"
      [] status = 500 -> "Internal Server Error"
      [] OTHER -> "OK"

\* HttpApi.post/put/delete: a response that is not ok throws before its body
\* is read; otherwise the parsed body is returned
HttpApiRequest(a) ==
    IF a.status \in 200..299
    THEN [thrown |-> NoError, body |-> a.body]
    ELSE [thrown |-> "HTTP " \o ToString(a.status) \o ": " \o StatusText(a.status),
          body |-> NoAnswer.body]

\* WebSocketApi.emit resolves with the acknowledgement
WebSocketApiEmit(a) == [thrown |-> NoError, body |-> a.body]

\* the message of the Error a store's mutation function throws for an answer:
\* what its transport threw, else the error of a failure envelope
MutationFnError(m, a) ==
    LET r == IF Transport(StoreKey(m.store)) = "http"
             THEN HttpApiRequest(a) ELSE WebSocketApiEmit(a)
    IN IF r.thrown # NoError THEN r.thrown
       ELSE IF ~r.body.success THEN r.body.error ELSE NoError

\* the server answers the write of a call with a failure envelope and the
\* mutation function throws
ServerAnswersFailure(c, a) ==
    /\ a \in FailureAnswers(mcalls[c].m)
    /\ MutationFnRejects(c, MutationFnError(mcalls[c].m, a))
    /\ answered' = [answered EXCEPT ![c] = a]
    /\ UNCHANGED <<config, options, lastRead, taken, uvars>>

\* ------------------------------------------- writes the server turns down
\* a write of this client that fails on the server (a validation error, an
\* unknown id, an exception of the store; the controllers of the other
\* entities answer the same statuses with their own messages): the database
\* is left alone and the failure envelope goes back. A socket handler
\* returns after ack({success: false}); an HTTP route awaits the controller,
\* which has answered the failure itself, and then calls io.emit
ServerRefuses(c, a) ==
    LET k == StoreKey(mcalls[c].m.store)
        X == EntityOf(k)
    IN /\ mcalls[c].pc = "sent"
       /\ X \in Entities
       /\ ~Answered("mack", c)
       /\ ~Answered("mfail", c)
       /\ a \in FailureAnswers(mcalls[c].m)
       /\ IF Transport(k) = "websocket"
          THEN /\ socket' = Append(socket, Msg("mfail", c, X, <<a>>))
               /\ UNCHANGED responses
          ELSE /\ socket' = Append(socket, Msg("event", 0, X, <<>>))
               /\ responses' = responses \cup {Msg("mfail", c, X, <<a>>)}
       /\ UNCHANGED <<database, writes>>
       /\ UNCHANGED qvars
       /\ UNCHANGED mvars
       /\ UNCHANGED dvars

\* the failure envelope reaches the client and the mutation function throws
FailureArrives(msg) ==
    /\ msg.type = "mfail"
    /\ MutationFnRejects(msg.call, MutationFnError(mcalls[msg.call].m, msg.data[1]))
    /\ answered' = [answered EXCEPT ![msg.call] = msg.data[1]]
    /\ UNCHANGED <<config, options, lastRead, taken, uvars>>
    /\ UNCHANGED <<database, writes>>

SocketDeliversFailure ==
    /\ socket # <<>>
    /\ FailureArrives(Head(socket))
    /\ socket' = Tail(socket)
    /\ UNCHANGED responses

HttpDeliversFailure(r) ==
    /\ r \in responses
    /\ FailureArrives(r)
    /\ responses' = responses \ {r}
    /\ UNCHANGED socket

\* ---------------------------------------------- GroupsPageState.toggleAccess
\* no toggle belongs to the call
NoToggle == [group |-> 0, groups |-> 0]

\* the groups of the access matrix and the user whose row is clicked. The
\* group list of an access record (its field v) is written as the sum of its
\* groups, which are powers of two
PageGroups == {1, 2}
Subject == 1

\* access.groups.includes(groupId)
Includes(groups, g) == (groups \div g) % 2 = 1

\* hasAccess ? access.groups.filter((g) => g !== groupId) : [...access.groups, groupId]
UpdatedGroups(groups, g) == IF Includes(groups, g) THEN groups - g ELSE groups + g

\* accessRecords.find((a) => a.subject === userId), NoRec for undefined
AccessOf(list, userId) ==
    IF \E i \in 1..Len(list) : list[i].id = userId
    THEN list[CHOOSE i \in 1..Len(list) : list[i].id = userId]
    ELSE NoRec

\* the groups a toggle has been requested for (each is toggled once)
Issued == ({toggles[c].group : c \in DOMAIN toggles} \ {0}) \cup applied

\* GroupsPageState.isAccessMutating
isAccessMutating == MutationResult([store |-> "accessHttp", op |-> "update"]).isPending

\* toggleAccess(userId, groupId): the whole group list, computed from the
\* cached record, is sent
toggleAccess(userId, g) ==
    LET access == AccessOf(OldList(queries[AccessHttp]), userId)
    IN /\ access # NoRec
       /\ g \notin Issued
       /\ Mutate([store |-> "accessHttp", op |-> "update"], userId)
       /\ toggles' = [toggles EXCEPT ![NextCall] =
                          [group |-> g, groups |-> UpdatedGroups(access.v, g)]]
       /\ UNCHANGED <<otherRecords, applied>>
       /\ UNCHANGED <<config, options, lastRead, taken, answered, formvars, profilevars, emits>>

\* PUT /access/:subject: Database.updateAccess replaces the group list of
\* the record by the one sent, the controller answers with the record and
\* the route emits 'access:updated'
ServerUpdatesAccess(c) ==
    LET rec == Rec(mcalls[c].arg, toggles[c].groups)
    IN /\ mcalls[c].pc = "sent"
       /\ mcalls[c].m = [store |-> "accessHttp", op |-> "update"]
       /\ ~Answered("mack", c)
       /\ database' = [database EXCEPT !["access"] = ListAfterUpdate(@, rec)]
       /\ socket' = Append(socket, Msg("event", 0, "access", <<>>))
       /\ responses' = responses \cup {Msg("mack", c, "access", <<rec>>)}
       /\ applied' = applied \cup {toggles[c].group}
       /\ UNCHANGED writes
       /\ UNCHANGED qvars
       /\ UNCHANGED mvars
       /\ UNCHANGED <<toggles, otherRecords>>
       /\ UNCHANGED <<config, options, lastRead, taken, answered, formvars, profilevars, emits>>

\* the Groups page of another client fetches the access records
OtherClientFetches ==
    /\ otherRecords # database["access"]
    /\ otherRecords' = database["access"]
    /\ UNCHANGED <<toggles, applied>>
    /\ UNCHANGED <<config, options, lastRead, taken, answered, formvars, profilevars, emits>>
    /\ UNCHANGED svars
    /\ UNCHANGED qvars
    /\ UNCHANGED mvars

\* toggleAccess on the page of the other client: its request is served and
\* its onSuccess writes the answered record into its cached list
OtherClientToggles(userId, g) ==
    LET access == AccessOf(otherRecords, userId)
        rec == Rec(userId, UpdatedGroups(access.v, g))
    IN /\ access # NoRec
       /\ g \notin Issued
       /\ database' = [database EXCEPT !["access"] = ListAfterUpdate(@, rec)]
       /\ socket' = Append(socket, Msg("event", 0, "access", <<>>))
       /\ otherRecords' = ListAfterUpdate(otherRecords, rec)
       /\ applied' = applied \cup {g}
       /\ UNCHANGED <<responses, writes>>
       /\ UNCHANGED toggles
       /\ UNCHANGED <<config, options, lastRead, taken, answered, formvars, profilevars, emits>>
       /\ UNCHANGED qvars
       /\ UNCHANGED mvars

\* --------------------------------------------------------- GroupProfileState
\* no loadGroup() call
NoLoad == [id |-> 0, state |-> "none"]

\* the ids of the groups a profile page is opened for
ProfileIds == {1, 2}

NextLoad == Cardinality({n \in DOMAIN loads : loads[n].state # "none"}) + 1

\* the rest of the model stays as it is
nonprofile == <<config, options, lastRead, taken, answered, formvars, accessvars, emits>>

\* loadGroup(id) up to its await: the id is kept, the flag is raised, the
\* error is dropped and getGroupById(id) is asked
loadGroup(id) ==
    /\ NextLoad \in DOMAIN loads
    /\ groupId' = id
    /\ isLoading' = TRUE
    /\ loadError' = NoError
    /\ loads' = [loads EXCEPT ![NextLoad] = [id |-> id, state |-> "pending"]]
    /\ UNCHANGED group
    /\ UNCHANGED <<qvars, mvars, svars, nonprofile>>

\* getGroupById(id) has resolved with the group: runInAction shows it and
\* lowers the flag, whatever has been called since (its formData follows
\* the group shown)
LoadGroupResolves(n) ==
    /\ loads[n].state = "pending"
    /\ group' = Rec(loads[n].id, 1)
    /\ isLoading' = FALSE
    /\ loads' = [loads EXCEPT ![n].state = "settled"]
    /\ UNCHANGED <<groupId, loadError>>
    /\ UNCHANGED <<qvars, mvars, svars, nonprofile>>

\* getGroupById(id) has thrown, or resolved with undefined ('Group not
\* found'): the catch block keeps the message and lowers the flag
LoadGroupRejects(n, err) ==
    /\ loads[n].state = "pending"
    /\ loadError' = err
    /\ isLoading' = FALSE
    /\ loads' = [loads EXCEPT ![n].state = "settled"]
    /\ UNCHANGED <<groupId, group>>
    /\ UNCHANGED <<qvars, mvars, svars, nonprofile>>

\* clear(), the cleanup of the page's effect
clear ==
    /\ groupId' = 0
    /\ group' = NoRec
    /\ isLoading' = FALSE
    /\ loadError' = NoError
    /\ UNCHANGED loads
    /\ UNCHANGED <<qvars, mvars, svars, nonprofile>>

\* ------------------------------------------------------- WebSocketApi.emit
\* the events emitted and the acknowledgements the server gives
EmitEvents == {"roles:getAll", "roles:create"}
Acks == {NoAnswer, Failure(0, "E1")}

\* no call; wire: what is on its way ("request" to the server, "ack" back)
NoEmit ==
    [event |-> "", promise |-> "none", value |-> NoAnswer, reason |-> NoError,
     timer |-> "none", sent |-> 0, wire |-> "none", ack |-> NoAnswer]

NextEmit == Cardinality({e \in DOMAIN emits : emits[e].promise # "none"}) + 1

\* new Error(`WebSocket timeout for event: ${event}`)
TimeoutError(event) == "WebSocket timeout for event: " \o event

\* the rest of the model stays as it is
nonemit ==
    <<qvars, mvars, svars, config, options, lastRead, taken, answered,
      formvars, accessvars, profilevars>>

\* emit(event, data): the executor of the promise arms the 10-second timer
\* and hands the event with its acknowledgement callback to the socket
Emit(event) ==
    /\ NextEmit \in DOMAIN emits
    /\ emits' = [emits EXCEPT ![NextEmit] =
                     [NoEmit EXCEPT !.event = event, !.promise = "pending",
                                    !.timer = "armed", !.sent = 1, !.wire = "request"]]
    /\ UNCHANGED nonemit

\* the server's handler calls the acknowledgement with its answer
ServerAcknowledges(e, a) ==
    /\ emits[e].wire = "request"
    /\ emits' = [emits EXCEPT ![e].wire = "ack", ![e].ack = a]
    /\ UNCHANGED nonemit

ResolvedAlways(x, a) == [x EXCEPT !.promise = "resolved", !.value = a]

\* resolve() and reject() of a promise act while it is pending
Resolved(x, a) ==
    IF x.promise = "pending" THEN [x EXCEPT !.promise = "resolved", !.value = a] ELSE x

Rejected(x, err) ==
    IF x.promise = "pending" THEN [x EXCEPT !.promise = "rejected", !.reason = err] ELSE x

\* the acknowledgement callback: clearTimeout(timeout); resolve(response)
AckCallback(e) ==
    /\ emits[e].wire = "ack"
    /\ emits' = [emits EXCEPT ![e] =
                     Resolved([@ EXCEPT !.wire = "none",
                                        !.timer = IF @ = "armed" THEN "cleared" ELSE @],
                              emits[e].ack)]
    /\ UNCHANGED nonemit

\* the 10 seconds are over and the timer was not cleared
TimeoutFires(e) ==
    /\ emits[e].timer = "armed"
    /\ emits' = [emits EXCEPT ![e] =
                     Rejected([@ EXCEPT !.timer = "fired"], TimeoutError(emits[e].event))]
    /\ UNCHANGED nonemit

\* ------------------------------------------------------ UsersListStateHttp
\* no submitForm() call awaits the mutate() call
NoSubmit == [state |-> "none", id |-> 0, data |-> 0]

\* the records the users page shows, and the values typed into the form
PageUsers == {Rec(1, 1), Rec(2, 1)}
FormValues == {2}

\* the variables the actions of UsersListStateHttp leave alone
nonform == <<config, options, lastRead, taken, answered, accessvars, profilevars, emits>>

\* UsersListStateHttp.isMutating
IsMutating ==
    \E op \in Ops : MutationResult([store |-> "usersHttp", op |-> op]).isPending

\* UsersListStateHttp.openCreateModal
OpenCreateModal ==
    /\ editingUser' = 0
    /\ formData' = 0
    /\ isModalOpen' = TRUE
    /\ UNCHANGED <<submits, nonform>>
    /\ UNCHANGED <<qvars, mvars>>

\* UsersListStateHttp.openEditModal(user)
OpenEditModal(user) ==
    /\ editingUser' = user.id
    /\ formData' = user.v
    /\ isModalOpen' = TRUE
    /\ UNCHANGED <<submits, nonform>>
    /\ UNCHANGED <<qvars, mvars>>

\* UsersListStateHttp.closeModal, called by the modal's cancel button
CloseModal ==
    /\ isModalOpen
    /\ isModalOpen' = FALSE
    /\ editingUser' = 0
    /\ formData' = 0
    /\ UNCHANGED <<submits, nonform>>
    /\ UNCHANGED <<qvars, mvars>>

\* UsersListStateHttp.updateFormField, called by the inputs of the open modal
UpdateFormField(v) ==
    /\ isModalOpen
    /\ formData' = v
    /\ UNCHANGED <<isModalOpen, editingUser, submits, nonform>>
    /\ UNCHANGED <<qvars, mvars>>

\* UsersListStateHttp.submitForm up to its await: updateUser(editingUser.id,
\* formData) if a record is edited, createUser(formData) otherwise
SubmitForm ==
    /\ isModalOpen
    /\ Mutate([store |-> "usersHttp",
               op |-> IF editingUser # 0 THEN "update" ELSE "create"], editingUser)
    /\ submits' = [submits EXCEPT ![NextCall] =
                       [state |-> "awaiting", id |-> editingUser, data |-> formData]]
    /\ UNCHANGED <<isModalOpen, editingUser, formData, nonform>>

\* the server answers the write of a submitted form with the record it stored
SubmittedResolves(c) ==
    /\ submits[c].state = "awaiting"
    /\ MutationFnResolves(c, Rec(IF mcalls[c].arg = 0 THEN 3 ELSE mcalls[c].arg,
                                 submits[c].data))
    /\ UNCHANGED dvars

SubmitFormSettlesClosingAlways(c) ==
    /\ submits[c].state = "awaiting"
    /\ SettleMutation(c)
    /\ isModalOpen' = FALSE
    /\ editingUser' = 0
    /\ formData' = 0
    /\ submits' = [submits EXCEPT ![c].state = "returned"]
    /\ UNCHANGED nonform

\* the promise of mutate() settles and submitForm goes on after its await:
\* closeModal() if the promise resolved, the catch block (which only logs) if
\* it rejected; submitForm's own promise resolves either way
SubmitFormSettles(c) ==
    /\ submits[c].state = "awaiting"
    /\ SettleMutation(c)
    /\ IF mcalls[c].error = NoError
       THEN /\ isModalOpen' = FALSE
            /\ editingUser' = 0
            /\ formData' = 0
       ELSE UNCHANGED <<isModalOpen, editingUser, formData>>
    /\ submits' = [submits EXCEPT ![c].state = "returned"]
    /\ UNCHANGED nonform

\* lists a query function may resolve with
FetchLists == {<<Rec(1, 1)>>, <<Rec(1, 1), Rec(2, 1)>>}

\* errors a query function may reject with
FetchErrors == {"E1"}

\* SpecQ: two MobxQuery instances on one key, their observers, refetch()
\* callers and the invalidations of a socket event (data goes stale here by
\* invalidation; SpecL lets staleTime elapse)
QAdapters == {"getAllGroupsQuery", "getAllGroupsQuery2"}

Init ==
    /\ queries = [k \in Keys |-> NewQuery]
    /\ calls = {}
    /\ invoked = [k \in Keys |-> 0]
    /\ atomObs = [q \in Adapters |-> 0]
    /\ listeners = [q \in Adapters |-> {}]
    /\ reactions = [q \in Adapters |-> {}]
    /\ unsubscribe = [q \in Adapters |-> 0]
    /\ waiters = {}
    /\ obtained = [c \in 1..MaxCallers |-> Unused]
    /\ mcalls = [c \in 1..MaxMutations |-> UnusedCall]
    /\ mtrack = [m \in Mutations |->
                    [atomObs |-> 0, listeners |-> {}, reactions |-> {}, unsubscribe |-> 0]]
    /\ mobserver = [m \in Mutations |->
                       [current |-> 0, attached |-> FALSE, result |-> IdleResult]]
    /\ running = 0
    /\ database = [X \in Entities |-> <<Rec(1, 1)>>]
    /\ socket = <<>>
    /\ responses = {}
    /\ writes = 0
    /\ config = [query |-> GroupsHttp, mutation |-> 1]
    /\ options = [query |-> GroupsHttp, mutation |-> 1]
    /\ lastRead = NoRead
    /\ taken = [c \in 1..MaxMutations |-> 0]
    /\ answered = [c \in 1..MaxMutations |-> NoAnswer]
    /\ isModalOpen = FALSE
    /\ editingUser = 0
    /\ formData = 0
    /\ submits = [c \in 1..MaxMutations |-> NoSubmit]
    /\ toggles = [c \in 1..MaxMutations |-> NoToggle]
    /\ otherRecords = <<>>
    /\ applied = {}
    /\ groupId = 0
    /\ group = NoRec
    /\ isLoading = FALSE
    /\ loadError = NoError
    /\ loads = [n \in 1..MaxFetches |-> NoLoad]
    /\ emits = [e \in 1..MaxCallers |-> NoEmit]

NextQ ==
    \/ \E q \in QAdapters : Observe(q) /\ UNCHANGED svars /\ UNCHANGED dvars
    \/ \E q \in QAdapters : Unobserve(q) /\ UNCHANGED svars /\ UNCHANGED dvars
    \/ \E q \in QAdapters : ReadData(q) /\ UNCHANGED svars /\ UNCHANGED dvars
    \/ \E q \in QAdapters, c \in 1..MaxCallers : Refetch(q, c) /\ UNCHANGED svars /\ UNCHANGED dvars
    \/ \E k \in Keys, f \in 1..MaxFetches : CancelledWaitersSettle(k, f) /\ UNCHANGED svars /\ UNCHANGED dvars
    \/ \E x \in calls, d \in FetchLists : DeliverData(x, d) /\ UNCHANGED svars /\ UNCHANGED dvars
    \/ \E x \in calls, err \in FetchErrors : DeliverError(x, err) /\ UNCHANGED svars /\ UNCHANGED dvars
    \/ \E k \in Keys : RetryTimer(k) /\ UNCHANGED svars /\ UNCHANGED dvars
    \/ OnRolesEvent /\ UNCHANGED svars /\ UNCHANGED dvars

SpecQ == Init /\ [][NextQ]_vars


\* ids of the records mutations address
Ids == {1, 2}

\* Array.prototype.find: the first record with the id, or undefined
Find(list, id) ==
    IF \E i \in 1..Len(list) : list[i].id = id
    THEN [found |-> TRUE,
          rec |-> list[CHOOSE i \in 1..Len(list) :
                           /\ list[i].id = id
                           /\ \A j \in 1..(i - 1) : list[j].id # id]]
    ELSE [found |-> FALSE, rec |-> NoRec]

\* the envelopes a single-record transport call may come back with
Responses(id) == {[success |-> TRUE, data |-> Rec(id, 1), error |-> NoError],
                  [success |-> TRUE, data |-> Rec(id, 2), error |-> NoError],
                  [success |-> FALSE, data |-> NoRec, error |-> "E1"]}

GetByIdAlwaysFetching(e, id, response) ==
    IF response.success
    THEN [outcome |-> "returned", rec |-> response.data, error |-> NoError, transportCalls |-> 1]
    ELSE [outcome |-> "thrown", rec |-> NoRec, error |-> response.error, transportCalls |-> 1]

\* getGroupById / getAccessBySubject of a store whose list entry is e: the
\* cached record if the list holds one, else one single-record transport
\* call, whose failure envelope is thrown
GetById(e, id, response) ==
    LET cachedRecord == IF e.hasData THEN Find(e.data, id) ELSE [found |-> FALSE, rec |-> NoRec]
    IN IF cachedRecord.found
       THEN [outcome |-> "returned", rec |-> cachedRecord.rec, error |-> NoError,
             transportCalls |-> 0]
       ELSE IF response.success
            THEN [outcome |-> "returned", rec |-> response.data, error |-> NoError,
                  transportCalls |-> 1]
            ELSE [outcome |-> "thrown", rec |-> NoRec, error |-> response.error,
                  transportCalls |-> 1]

\* what the server may answer a mutation with: a created record (id 2 is one
\* that a list fetch may already have delivered), the updated record, or the
\* deleted id
Answers(x) ==
    CASE x.m.op = "create" -> {Rec(2, 1), Rec(3, 1)}
      [] x.m.op = "update" -> {Rec(x.arg, 2)}
      [] x.m.op = "delete" -> {Rec(x.arg, 0)}

\* SpecM: the mutations of UsersEntityHttp beside its list query, which one
\* component observes
MAdapters == {"getAllUsersQuery"}
MMutations == {m \in Mutations : m.store = "usersHttp"}

NextM ==
    \/ \E q \in MAdapters : atomObs[q] = 0 /\ Observe(q) /\ UNCHANGED svars /\ UNCHANGED dvars
    \/ \E q \in MAdapters : Unobserve(q) /\ UNCHANGED svars /\ UNCHANGED dvars
    \/ \E x \in calls, d \in FetchLists : DeliverData(x, d) /\ UNCHANGED svars /\ UNCHANGED dvars
    \/ \E m \in MMutations, arg \in Ids \cup {0} : Mutate(m, arg) /\ UNCHANGED svars /\ UNCHANGED dvars
    \/ \E c \in DOMAIN mcalls : \E rec \in Answers(mcalls[c]) : MutationFnResolves(c, rec) /\ UNCHANGED svars /\ UNCHANGED dvars
    \/ \E c \in DOMAIN mcalls, err \in FetchErrors : MutationFnRejects(c, err) /\ UNCHANGED svars /\ UNCHANGED dvars
    \/ \E c \in DOMAIN mcalls : RunCallbacks(c) /\ UNCHANGED svars /\ UNCHANGED dvars
    \/ \E c \in DOMAIN mcalls : SettleMutation(c) /\ UNCHANGED svars /\ UNCHANGED dvars

SpecM == Init /\ [][NextM]_vars

\* SpecE: one mutation adapter, its observers and its concurrent calls
EMutations == {[store |-> "usersHttp", op |-> "create"]}

NextE ==
    \/ \E m \in EMutations : Mutate(m, 0) /\ UNCHANGED svars /\ UNCHANGED dvars
    \/ \E c \in DOMAIN mcalls : \E rec \in Answers(mcalls[c]) : MutationFnResolves(c, rec) /\ UNCHANGED svars /\ UNCHANGED dvars
    \/ \E c \in DOMAIN mcalls, err \in Errors : MutationFnRejects(c, err) /\ UNCHANGED svars /\ UNCHANGED dvars
    \/ \E c \in DOMAIN mcalls : RunCallbacks(c) /\ UNCHANGED svars /\ UNCHANGED dvars
    \/ \E c \in DOMAIN mcalls : SettleMutation(c) /\ UNCHANGED svars /\ UNCHANGED dvars
    \/ \E m \in EMutations : Reset(m) /\ UNCHANGED svars /\ UNCHANGED dvars
    \/ \E m \in EMutations : ObserveMutation(m) /\ UNCHANGED svars /\ UNCHANGED dvars
    \/ \E m \in EMutations : UnobserveMutation(m) /\ UNCHANGED svars /\ UNCHANGED dvars

SpecE == Init /\ [][NextE]_vars

\* SpecR: the mutations of both role stores beside the two group lists, each
\* observed by at most one component
RAdapters == {"getAllGroupsQuery", "getAllGroupsQueryWs"}
RMutations == {m \in Mutations : m.store \in {"rolesHttp", "rolesWs"}}

NextR ==
    \/ \E q \in RAdapters : atomObs[q] = 0 /\ Observe(q) /\ UNCHANGED svars /\ UNCHANGED dvars
    \/ \E x \in calls, d \in FetchLists : DeliverData(x, d) /\ UNCHANGED svars /\ UNCHANGED dvars
    \/ \E m \in RMutations, arg \in {0, 1} : Mutate(m, arg) /\ UNCHANGED svars /\ UNCHANGED dvars
    \/ \E c \in DOMAIN mcalls : \E rec \in Answers(mcalls[c]) : MutationFnResolves(c, rec) /\ UNCHANGED svars /\ UNCHANGED dvars
    \/ \E c \in DOMAIN mcalls : RunCallbacks(c) /\ UNCHANGED svars /\ UNCHANGED dvars
    \/ \E c \in DOMAIN mcalls : SettleMutation(c) /\ UNCHANGED svars /\ UNCHANGED dvars

SpecR == Init /\ [][NextR]_vars

\* SpecL: the lifecycle of an enabled list query, of a query constructed with
\* enabled: false and of a mutation adapter, as observers come and go
LAdapters == {"getAllGroupsQuery", "getRoleQuery"}
LMutations == {[store |-> "usersHttp", op |-> "create"]}
LLists == {<<Rec(1, 1)>>}

NextL ==
    \/ \E q \in LAdapters : Observe(q) /\ UNCHANGED svars /\ UNCHANGED dvars
    \/ \E q \in LAdapters : Unobserve(q) /\ UNCHANGED svars /\ UNCHANGED dvars
    \/ \E q \in LAdapters : ReadData(q) /\ UNCHANGED svars /\ UNCHANGED dvars
    \/ Refetch("getAllGroupsQuery", 1) /\ UNCHANGED svars /\ UNCHANGED dvars
    \/ \E k \in Keys, f \in 1..MaxFetches : CancelledWaitersSettle(k, f) /\ UNCHANGED svars /\ UNCHANGED dvars
    \/ \E x \in calls, d \in LLists : DeliverData(x, d) /\ UNCHANGED svars /\ UNCHANGED dvars
    \/ \E x \in calls, err \in FetchErrors : DeliverError(x, err) /\ UNCHANGED svars /\ UNCHANGED dvars
    \/ \E k \in Keys : RetryTimer(k) /\ UNCHANGED svars /\ UNCHANGED dvars
    \/ \E k \in Keys : StaleTimeElapses(k) /\ UNCHANGED svars /\ UNCHANGED dvars
    \/ OnRolesEvent /\ UNCHANGED svars /\ UNCHANGED dvars
    \/ \E m \in LMutations : ObserveMutation(m) /\ UNCHANGED svars /\ UNCHANGED dvars
    \/ \E m \in LMutations : UnobserveMutation(m) /\ UNCHANGED svars /\ UNCHANGED dvars

SpecL == Init /\ [][NextL]_vars

\* SpecN: two WebSocket stores' lists and the HTTP groups list that role
\* notifications reach, with the stores' notification handlers
NAdapters == {"getAllUsersQueryWs", "getAllRolesQueryWs", "getAllGroupsQuery"}

NLists == {<<Rec(1, 1)>>}

NextN ==
    \/ \E q \in NAdapters : atomObs[q] = 0 /\ Observe(q) /\ UNCHANGED svars /\ UNCHANGED dvars
    \/ \E q \in NAdapters : Unobserve(q) /\ UNCHANGED svars /\ UNCHANGED dvars
    \/ \E x \in calls, d \in NLists : DeliverData(x, d) /\ UNCHANGED svars /\ UNCHANGED dvars
    \/ OnUsersEvent /\ UNCHANGED svars /\ UNCHANGED dvars
    \/ OnRolesEvent /\ UNCHANGED svars /\ UNCHANGED dvars
    \/ OnGroupsEvent /\ UNCHANGED svars /\ UNCHANGED dvars

SpecN == Init /\ [][NextN]_vars

\* SpecW: one client observing the roles list of its WebSocket store, one
\* create of its own through that store, writes of other clients, and the
\* server answering over the socket
WAdapters == {"getAllRolesQueryWs"}
WMutations == {[store |-> "rolesWs", op |-> "create"]}

NextW ==
    \/ \E q \in WAdapters : atomObs[q] = 0 /\ Observe(q) /\ UNCHANGED svars /\ UNCHANGED dvars
    \/ \E x \in calls : ServerGetAll(x) /\ UNCHANGED dvars
    \/ \E list \in Written(database["roles"]) : ServerWrite("roles", list) /\ UNCHANGED dvars
    \/ \E m \in WMutations : NextCall = 1 /\ ClientCreates(m) /\ UNCHANGED dvars
    \/ \E c \in DOMAIN mcalls : ServerCreate(c) /\ UNCHANGED dvars
    \/ SocketDeliversAck /\ UNCHANGED dvars
    \/ SocketDeliversMutationAck /\ UNCHANGED dvars
    \/ SocketDeliversEvent /\ UNCHANGED dvars
    \/ \E c \in DOMAIN mcalls : RunCallbacks(c) /\ UNCHANGED svars /\ UNCHANGED dvars
    \/ \E c \in DOMAIN mcalls : SettleMutation(c) /\ UNCHANGED svars /\ UNCHANGED dvars

SpecW == Init /\ [][NextW]_vars

\* the server, the socket and the client's event loop keep going: while a
\* request is unanswered, a message undelivered or the continuation of a
\* mutation not run, one of them is eventually handled
FairW ==
    /\ SpecW
    /\ WF_vars(\/ \E x \in calls : ServerGetAll(x) /\ UNCHANGED dvars
               \/ \E c \in DOMAIN mcalls : ServerCreate(c) /\ UNCHANGED dvars
               \/ SocketDeliversAck /\ UNCHANGED dvars
               \/ SocketDeliversMutationAck /\ UNCHANGED dvars
               \/ SocketDeliversEvent /\ UNCHANGED dvars
               \/ \E c \in DOMAIN mcalls : RunCallbacks(c) /\ UNCHANGED svars /\ UNCHANGED dvars
               \/ \E c \in DOMAIN mcalls : SettleMutation(c) /\ UNCHANGED svars /\ UNCHANGED dvars)

\* SpecB: one client observing the roles lists of both its stores, one create
\* of its own through the HTTP store, and writes of other clients
BAdapters == {"getAllRolesQuery", "getAllRolesQueryWs"}
BMutations == {[store |-> "rolesHttp", op |-> "create"]}

NextB ==
    \/ \E q \in BAdapters : atomObs[q] = 0 /\ Observe(q) /\ UNCHANGED svars /\ UNCHANGED dvars
    \/ \E x \in calls : ServerGetAll(x) /\ UNCHANGED dvars
    \/ \E list \in Written(database["roles"]) : ServerWrite("roles", list) /\ UNCHANGED dvars
    \/ \E m \in BMutations : NextCall = 1 /\ ClientCreates(m) /\ UNCHANGED dvars
    \/ \E c \in DOMAIN mcalls : ServerCreate(c) /\ UNCHANGED dvars
    \/ SocketDeliversAck /\ UNCHANGED dvars
    \/ SocketDeliversEvent /\ UNCHANGED dvars
    \/ \E r \in responses : HttpDelivers(r) /\ UNCHANGED dvars
    \/ \E c \in DOMAIN mcalls : RunCallbacks(c) /\ UNCHANGED svars /\ UNCHANGED dvars
    \/ \E c \in DOMAIN mcalls : SettleMutation(c) /\ UNCHANGED svars /\ UNCHANGED dvars

SpecB == Init /\ [][NextB]_vars

FairB ==
    /\ SpecB
    /\ WF_vars(\/ \E x \in calls : ServerGetAll(x) /\ UNCHANGED dvars
               \/ \E c \in DOMAIN mcalls : ServerCreate(c) /\ UNCHANGED dvars
               \/ SocketDeliversAck /\ UNCHANGED dvars
               \/ SocketDeliversEvent /\ UNCHANGED dvars
               \/ \E r \in responses : HttpDelivers(r) /\ UNCHANGED dvars
               \/ \E c \in DOMAIN mcalls : RunCallbacks(c) /\ UNCHANGED svars /\ UNCHANGED dvars
               \/ \E c \in DOMAIN mcalls : SettleMutation(c) /\ UNCHANGED svars /\ UNCHANGED dvars)

\* what GroupsPageState.toggleAccess of another client makes of the server's
\* access records: the record of the subject with its groups changed
Toggled(list) == {ListAfterUpdate(list, Rec(1, v)) : v \in {1, 2}}

\* SpecA: one client with the Groups page open, which observes the access
\* list of the HTTP store, and the access list of the WebSocket store beside
\* it; other clients toggle access
AAdapters == {"getAllAccessQuery", "getAllAccessQueryWs"}

NextA ==
    \/ \E q \in AAdapters : atomObs[q] = 0 /\ Observe(q) /\ UNCHANGED svars /\ UNCHANGED dvars
    \/ \E x \in calls : ServerGetAll(x) /\ UNCHANGED dvars
    \/ \E list \in Toggled(database["access"]) : ServerWrite("access", list) /\ UNCHANGED dvars
    \/ SocketDeliversAck /\ UNCHANGED dvars
    \/ SocketDeliversEvent /\ UNCHANGED dvars
    \/ \E r \in responses : HttpDelivers(r) /\ UNCHANGED dvars

SpecA == Init /\ [][NextA]_vars

FairA ==
    /\ SpecA
    /\ WF_vars(\/ \E x \in calls : ServerGetAll(x) /\ UNCHANGED dvars
               \/ SocketDeliversAck /\ UNCHANGED dvars
               \/ SocketDeliversEvent /\ UNCHANGED dvars
               \/ \E r \in responses : HttpDelivers(r) /\ UNCHANGED dvars)

\* SpecS: the groups list of the HTTP store with and without an observer,
\* refetch() callers, fetches that succeed or fail, and one create through
\* the store's mutation, which succeeds or fails and may be reset
SAdapters == {"getAllGroupsQuery"}
SLists == {<<Rec(1, 1)>>}
SMutations == {[store |-> "groupsHttp", op |-> "create"]}

NextS ==
    \/ \E q \in SAdapters : atomObs[q] = 0 /\ Observe(q) /\ UNCHANGED svars /\ UNCHANGED dvars
    \/ \E q \in SAdapters : Unobserve(q) /\ UNCHANGED svars /\ UNCHANGED dvars
    \/ \E q \in SAdapters, c \in 1..MaxCallers : Refetch(q, c) /\ UNCHANGED svars /\ UNCHANGED dvars
    \/ \E k \in Keys, f \in 1..MaxFetches : CancelledWaitersSettle(k, f) /\ UNCHANGED svars /\ UNCHANGED dvars
    \/ \E x \in calls, d \in SLists : DeliverData(x, d) /\ UNCHANGED svars /\ UNCHANGED dvars
    \/ \E x \in calls, err \in FetchErrors : DeliverError(x, err) /\ UNCHANGED svars /\ UNCHANGED dvars
    \/ \E k \in Keys : RetryTimer(k) /\ UNCHANGED svars /\ UNCHANGED dvars
    \/ \E q \in SAdapters : GcTimeElapses(AdapterKey(q)) /\ UNCHANGED svars /\ UNCHANGED dvars
    \/ \E m \in SMutations : NextCall = 1 /\ Mutate(m, 0) /\ UNCHANGED svars /\ UNCHANGED dvars
    \/ \E c \in DOMAIN mcalls : MutationFnResolves(c, Rec(2, 1)) /\ UNCHANGED svars /\ UNCHANGED dvars
    \/ \E c \in DOMAIN mcalls, err \in FetchErrors : MutationFnRejects(c, err) /\ UNCHANGED svars /\ UNCHANGED dvars
    \/ \E c \in DOMAIN mcalls : RunCallbacks(c) /\ UNCHANGED svars /\ UNCHANGED dvars
    \/ \E c \in DOMAIN mcalls : SettleMutation(c) /\ UNCHANGED svars /\ UNCHANGED dvars
    \/ \E m \in SMutations : Reset(m) /\ UNCHANGED svars /\ UNCHANGED dvars

SpecS == Init /\ [][NextS]_vars

\* SpecK: a MobxQuery whose configProducer returns one of two keys, read in
\* and outside reactive contexts while the state the producer reads changes
KAdapters == {"keyedQuery"}

NextK ==
    \/ \E q \in KAdapters : ObserveResult(q) /\ UNCHANGED svars
    \/ \E q \in KAdapters : ReadResult(q) /\ UNCHANGED svars
    \/ \E q \in KAdapters : Unobserve(q) /\ UNCHANGED svars /\ UNCHANGED dvars
    \/ \E q \in KAdapters, k \in DKeys, observable \in BOOLEAN : QueryConfigChanges(q, k, observable) /\ UNCHANGED svars
    \/ \E x \in calls, d \in FetchLists : DeliverData(x, d) /\ UNCHANGED svars /\ UNCHANGED dvars

SpecK == Init /\ [][NextK]_vars

\* SpecO: a MobxMutation whose configProducer returns one of two versions of
\* its options, its observers and its calls
NextO ==
    \/ \E v \in DVersions, observable \in BOOLEAN : MutationConfigChanges(v, observable) /\ UNCHANGED svars
    \/ ObserveMutation(DMutation) /\ UNCHANGED svars /\ UNCHANGED dvars
    \/ UnobserveMutation(DMutation) /\ UNCHANGED svars /\ UNCHANGED dvars
    \/ MutateConfigured /\ UNCHANGED svars
    \/ \E c \in DOMAIN mcalls : MutationFnResolves(c, Rec(2, 1)) /\ UNCHANGED svars /\ UNCHANGED dvars
    \/ \E c \in DOMAIN mcalls : RunCallbacks(c) /\ UNCHANGED svars /\ UNCHANGED dvars
    \/ \E c \in DOMAIN mcalls : SettleMutation(c) /\ UNCHANGED svars /\ UNCHANGED dvars

SpecO == Init /\ [][NextO]_vars

\* SpecF: writes of the users HTTP store and the roles WebSocket store that
\* the server answers with success or with a failure envelope
FMutations ==
    {[store |-> "usersHttp", op |-> "create"], [store |-> "rolesWs", op |-> "update"]}

NextF ==
    \/ \E m \in FMutations : ObserveMutation(m) /\ UNCHANGED svars /\ UNCHANGED dvars
    \/ \E m \in FMutations : UnobserveMutation(m) /\ UNCHANGED svars /\ UNCHANGED dvars
    \/ \E m \in FMutations, arg \in 0..1 : Mutate(m, arg) /\ UNCHANGED svars /\ UNCHANGED dvars
    \/ \E c \in DOMAIN mcalls, a \in UNION {FailureAnswers(m) : m \in FMutations} : ServerAnswersFailure(c, a) /\ UNCHANGED svars
    \/ \E c \in DOMAIN mcalls : MutationFnResolves(c, Rec(IF mcalls[c].arg = 0 THEN 2 ELSE mcalls[c].arg, 2)) /\ UNCHANGED svars /\ UNCHANGED dvars
    \/ \E c \in DOMAIN mcalls : RunCallbacks(c) /\ UNCHANGED svars /\ UNCHANGED dvars
    \/ \E c \in DOMAIN mcalls : SettleMutation(c) /\ UNCHANGED svars /\ UNCHANGED dvars

SpecF == Init /\ [][NextF]_vars

\* SpecU: the mutations of both user stores and the access update of the HTTP
\* store, one write at a time, beside the lists of users (both transports)
\* and access, with the notifications the user WebSocket store handles
UAdapters == {"getAllUsersQuery", "getAllUsersQueryWs", "getAllAccessQuery"}

ULists == {<<Rec(1, 1)>>}

UMutations ==
    {[store |-> "usersHttp", op |-> "create"], [store |-> "usersHttp", op |-> "update"],
     [store |-> "usersWs", op |-> "delete"], [store |-> "accessHttp", op |-> "update"]}

NextU ==
    \/ \E q \in UAdapters : atomObs[q] = 0 /\ Observe(q) /\ UNCHANGED svars /\ UNCHANGED dvars
    \/ \E x \in calls, d \in ULists : DeliverData(x, d) /\ UNCHANGED svars /\ UNCHANGED dvars
    \/ OnUsersEvent /\ UNCHANGED svars /\ UNCHANGED dvars
    \/ \E m \in UMutations, arg \in 0..1 : (\A c \in DOMAIN mcalls : mcalls[c].pc \in {"unused", "settled"}) /\ Mutate(m, arg) /\ UNCHANGED svars /\ UNCHANGED dvars
    \/ \E c \in DOMAIN mcalls : MutationFnResolves(c, Rec(IF mcalls[c].arg = 0 THEN 2 ELSE mcalls[c].arg, 2)) /\ UNCHANGED svars /\ UNCHANGED dvars
    \/ \E c \in DOMAIN mcalls : RunCallbacks(c) /\ UNCHANGED svars /\ UNCHANGED dvars
    \/ \E c \in DOMAIN mcalls : SettleMutation(c) /\ UNCHANGED svars /\ UNCHANGED dvars

SpecU == Init /\ [][NextU]_vars

\* SpecI: the groups lists of both transports, their observers and fetches,
\* the notifications that mark them stale, an update through the groups
\* WebSocket store, and gcTime removing a list that has no observer
IAdapters == {"getAllGroupsQuery", "getAllGroupsQueryWs"}

ILists == {<<Rec(1, 1)>>, <<Rec(1, 2)>>}

IMutations == {[store |-> "groupsWs", op |-> "update"]}

NextI ==
    \/ \E q \in IAdapters : atomObs[q] = 0 /\ Observe(q) /\ UNCHANGED svars /\ UNCHANGED dvars
    \/ \E q \in IAdapters : Unobserve(q) /\ UNCHANGED svars /\ UNCHANGED dvars
    \/ \E x \in calls, d \in ILists : DeliverData(x, d) /\ UNCHANGED svars /\ UNCHANGED dvars
    \/ \E q \in IAdapters : GcTimeElapses(AdapterKey(q)) /\ UNCHANGED svars /\ UNCHANGED dvars
    \/ OnRolesEvent /\ UNCHANGED svars /\ UNCHANGED dvars
    \/ OnGroupsEvent /\ UNCHANGED svars /\ UNCHANGED dvars
    \/ \E m \in IMutations : NextCall = 1 /\ Mutate(m, 1) /\ UNCHANGED svars /\ UNCHANGED dvars
    \/ \E c \in DOMAIN mcalls : MutationFnResolves(c, Rec(1, 3)) /\ UNCHANGED svars /\ UNCHANGED dvars
    \/ \E c \in DOMAIN mcalls : RunCallbacks(c) /\ UNCHANGED svars /\ UNCHANGED dvars
    \/ \E c \in DOMAIN mcalls : SettleMutation(c) /\ UNCHANGED svars /\ UNCHANGED dvars

SpecI == Init /\ [][NextI]_vars

\* SpecD: the modal of the users page (HTTP): it is opened, edited, closed
\* and submitted through the buttons of UsersList (Create User and the submit
\* button are disabled while isMutating) while the server answers the
\* submitted writes
NextD ==
    \/ ~IsMutating /\ OpenCreateModal /\ UNCHANGED svars
    \/ \E user \in PageUsers : OpenEditModal(user) /\ UNCHANGED svars
    \/ CloseModal /\ UNCHANGED svars
    \/ \E v \in FormValues : UpdateFormField(v) /\ UNCHANGED svars
    \/ ~IsMutating /\ SubmitForm /\ UNCHANGED svars
    \/ \E c \in DOMAIN mcalls : SubmittedResolves(c) /\ UNCHANGED svars
    \/ \E c \in DOMAIN mcalls : MutationFnRejects(c, "E1") /\ UNCHANGED svars /\ UNCHANGED dvars
    \/ \E c \in DOMAIN mcalls : RunCallbacks(c) /\ UNCHANGED svars /\ UNCHANGED dvars
    \/ \E c \in DOMAIN mcalls : SubmitFormSettles(c) /\ UNCHANGED svars

SpecD == Init /\ [][NextD]_vars

\* SpecP: one client, the only writer, with the roles list of its HTTP store
\* observed: it refetches the list and creates roles once the list is
\* cached; the server serves its requests in any order and the responses
\* arrive in any order
PAdapters == {"getAllRolesQuery"}
PMutations == {[store |-> "rolesHttp", op |-> "create"]}

NextP ==
    \/ \E q \in PAdapters : atomObs[q] = 0 /\ Observe(q) /\ UNCHANGED svars /\ UNCHANGED dvars
    \/ \E q \in PAdapters, c \in 1..MaxCallers : Refetch(q, c) /\ UNCHANGED svars /\ UNCHANGED dvars
    \/ \E q \in PAdapters, f \in 1..MaxFetches : CancelledWaitersSettle(AdapterKey(q), f) /\ UNCHANGED svars /\ UNCHANGED dvars
    \/ \E x \in calls : ServerGetAll(x) /\ UNCHANGED dvars
    \/ \E m \in PMutations : queries[StoreKey(m.store)].hasData /\ ClientCreates(m) /\ UNCHANGED dvars
    \/ \E c \in DOMAIN mcalls : ServerCreate(c) /\ UNCHANGED dvars
    \/ SocketDeliversEvent /\ UNCHANGED dvars
    \/ \E r \in responses : HttpDelivers(r) /\ UNCHANGED dvars
    \/ \E c \in DOMAIN mcalls : RunCallbacks(c) /\ UNCHANGED svars /\ UNCHANGED dvars
    \/ \E c \in DOMAIN mcalls : SettleMutation(c) /\ UNCHANGED svars /\ UNCHANGED dvars

SpecP == Init /\ [][NextP]_vars

\* SpecH: creates of roles over HTTP and over the socket that the server
\* applies or turns down
HMutations == {[store |-> "rolesHttp", op |-> "create"], [store |-> "rolesWs", op |-> "create"]}

NextH ==
    \/ \E m \in HMutations : ClientCreates(m) /\ UNCHANGED dvars
    \/ \E c \in DOMAIN mcalls : ServerCreate(c) /\ UNCHANGED dvars
    \/ \E c \in DOMAIN mcalls : \E a \in FailureAnswers(mcalls[c].m) : ServerRefuses(c, a)
    \/ SocketDeliversMutationAck /\ UNCHANGED dvars
    \/ SocketDeliversEvent /\ UNCHANGED dvars
    \/ SocketDeliversFailure
    \/ \E r \in responses : r.type = "mack" /\ HttpDelivers(r) /\ UNCHANGED dvars
    \/ \E r \in responses : HttpDeliversFailure(r)
    \/ \E c \in DOMAIN mcalls : RunCallbacks(c) /\ UNCHANGED svars /\ UNCHANGED dvars
    \/ \E c \in DOMAIN mcalls : SettleMutation(c) /\ UNCHANGED svars /\ UNCHANGED dvars

SpecH == Init /\ [][NextH]_vars

\* SpecT: two clients with the Groups page open toggle the access of one
\* user to the groups of the matrix; this client's checkboxes are disabled
\* while its update is pending
TAdapters == {"getAllAccessQuery"}

NextT ==
    \/ \E q \in TAdapters : atomObs[q] = 0 /\ Observe(q) /\ UNCHANGED svars /\ UNCHANGED dvars
    \/ \E x \in calls : ServerGetAll(x) /\ UNCHANGED dvars
    \/ \E r \in responses : HttpDelivers(r) /\ UNCHANGED dvars
    \/ \E g \in PageGroups : ~isAccessMutating /\ toggleAccess(Subject, g) /\ UNCHANGED svars
    \/ \E c \in DOMAIN mcalls : ServerUpdatesAccess(c)
    \/ OtherClientFetches
    \/ \E g \in PageGroups : OtherClientToggles(Subject, g)
    \/ SocketDeliversEvent /\ UNCHANGED dvars
    \/ \E c \in DOMAIN mcalls : RunCallbacks(c) /\ UNCHANGED svars /\ UNCHANGED dvars
    \/ \E c \in DOMAIN mcalls : SettleMutation(c) /\ UNCHANGED svars /\ UNCHANGED dvars

SpecT == Init /\ [][NextT]_vars

\* SpecJ: the profile page of a group: the page's effect calls loadGroup for
\* the id of the route and clear() when the id changes or the page goes
NextJ ==
    \/ \E id \in ProfileIds : loadGroup(id)
    \/ \E n \in DOMAIN loads : LoadGroupResolves(n)
    \/ \E n \in DOMAIN loads : LoadGroupRejects(n, "E1")
    \/ clear

SpecJ == Init /\ [][NextJ]_vars

\* SpecV: the roles and groups lists of the WebSocket stores, observed or
\* not; notifications and a role update that mark them stale; fetches that
\* are answered with a list or fail, the retry of a failed fetch, and an
\* update. What starts fetches happens while invocations are left for them
\* and for the retries that wait
VAdapters == {"getAllRolesQueryWs", "getAllGroupsQueryWs"}

VLists == {<<Rec(1, 1)>>, <<Rec(1, 2)>>}

VMutations == {[store |-> "rolesWs", op |-> "update"]}

\* invocations are left for n more fetches besides the retries that wait
Room(n) ==
    TotalInvoked(invoked) + Cardinality({k \in Keys : queries[k].retryWait}) + n <= MaxFetches

NextV ==
    \/ \E q \in VAdapters : atomObs[q] = 0 /\ Room(1) /\ Observe(q) /\ UNCHANGED svars /\ UNCHANGED dvars
    \/ \E x \in calls, d \in VLists : DeliverData(x, d) /\ UNCHANGED svars /\ UNCHANGED dvars
    \/ \E x \in calls : Room(1) /\ DeliverError(x, "E1") /\ UNCHANGED svars /\ UNCHANGED dvars
    \/ \E q \in VAdapters : RetryTimer(AdapterKey(q)) /\ UNCHANGED svars /\ UNCHANGED dvars
    \/ Room(2) /\ OnRolesEvent /\ UNCHANGED svars /\ UNCHANGED dvars
    \/ Room(1) /\ OnGroupsEvent /\ UNCHANGED svars /\ UNCHANGED dvars
    \/ \E m \in VMutations : NextCall = 1 /\ Mutate(m, 1) /\ UNCHANGED svars /\ UNCHANGED dvars
    \/ \E c \in DOMAIN mcalls : Room(1) /\ MutationFnResolves(c, Rec(1, 3)) /\ UNCHANGED svars /\ UNCHANGED dvars
    \/ \E c \in DOMAIN mcalls : RunCallbacks(c) /\ UNCHANGED svars /\ UNCHANGED dvars
    \/ \E c \in DOMAIN mcalls : SettleMutation(c) /\ UNCHANGED svars /\ UNCHANGED dvars

SpecV == Init /\ [][NextV]_vars

\* every fetch settles: a transport call is answered, the retry delay ends,
\* and the continuation of a mutation runs
FairV ==
    /\ SpecV
    /\ WF_vars(\/ \E x \in calls, d \in VLists : DeliverData(x, d) /\ UNCHANGED svars /\ UNCHANGED dvars
               \/ \E q \in VAdapters : RetryTimer(AdapterKey(q)) /\ UNCHANGED svars /\ UNCHANGED dvars
               \/ \E c \in DOMAIN mcalls : RunCallbacks(c) /\ UNCHANGED svars /\ UNCHANGED dvars
               \/ \E c \in DOMAIN mcalls : SettleMutation(c) /\ UNCHANGED svars /\ UNCHANGED dvars)

\* SpecX: calls of WebSocketApi.emit, the server acknowledging them or not,
\* and their timers
NextX ==
    \/ \E event \in EmitEvents : Emit(event)
    \/ \E e \in DOMAIN emits, a \in Acks : ServerAcknowledges(e, a)
    \/ \E e \in DOMAIN emits : AckCallback(e)
    \/ \E e \in DOMAIN emits : TimeoutFires(e)

SpecX == Init /\ [][NextX]_vars

\* SpecC: role updates and deletes and a group update of the HTTP stores
\* beside the groups list and the access list, each observed by one component
CAdapters == {"getAllGroupsQuery", "getAllAccessQuery"}
CLists == {<<Rec(1, 1)>>}
CMutations == {[store |-> "rolesHttp", op |-> "update"],
               [store |-> "rolesHttp", op |-> "delete"],
               [store |-> "groupsHttp", op |-> "update"]}

NextC ==
    \/ \E q \in CAdapters : atomObs[q] = 0 /\ Observe(q) /\ UNCHANGED svars /\ UNCHANGED dvars
    \/ \E x \in calls, d \in CLists : DeliverData(x, d) /\ UNCHANGED svars /\ UNCHANGED dvars
    \/ \E m \in CMutations : Mutate(m, 1) /\ UNCHANGED svars /\ UNCHANGED dvars
    \/ \E c \in DOMAIN mcalls : \E rec \in Answers(mcalls[c]) : MutationFnResolves(c, rec) /\ UNCHANGED svars /\ UNCHANGED dvars
    \/ \E c \in DOMAIN mcalls : RunCallbacks(c) /\ UNCHANGED svars /\ UNCHANGED dvars
    \/ \E c \in DOMAIN mcalls : SettleMutation(c) /\ UNCHANGED svars /\ UNCHANGED dvars

SpecC == Init /\ [][NextC]_vars

\* every request is answered and the client's event loop keeps going
FairC ==
    /\ SpecC
    /\ WF_vars(\/ \E x \in calls, d \in CLists : DeliverData(x, d) /\ UNCHANGED svars /\ UNCHANGED dvars
               \/ \E c \in DOMAIN mcalls : \E rec \in Answers(mcalls[c]) : MutationFnResolves(c, rec) /\ UNCHANGED svars /\ UNCHANGED dvars
               \/ \E c \in DOMAIN mcalls : RunCallbacks(c) /\ UNCHANGED svars /\ UNCHANGED dvars
               \/ \E c \in DOMAIN mcalls : SettleMutation(c) /\ UNCHANGED svars /\ UNCHANGED dvars)

\* SpecG: the mutations of both group stores beside the access list of the
\* HTTP store, observed by at most one component
GAdapters == {"getAllAccessQuery"}
GLists == {<<Rec(1, 1)>>}
GMutations == {m \in Mutations : m.store \in {"groupsHttp", "groupsWs"}}

NextG ==
    \/ \E q \in GAdapters : atomObs[q] = 0 /\ Observe(q) /\ UNCHANGED svars /\ UNCHANGED dvars
    \/ \E x \in calls, d \in GLists : DeliverData(x, d) /\ UNCHANGED svars /\ UNCHANGED dvars
    \/ \E m \in GMutations, arg \in {0, 1} : Mutate(m, arg) /\ UNCHANGED svars /\ UNCHANGED dvars
    \/ \E c \in DOMAIN mcalls : \E rec \in Answers(mcalls[c]) : MutationFnResolves(c, rec) /\ UNCHANGED svars /\ UNCHANGED dvars
    \/ \E c \in DOMAIN mcalls : RunCallbacks(c) /\ UNCHANGED svars /\ UNCHANGED dvars
    \/ \E c \in DOMAIN mcalls : SettleMutation(c) /\ UNCHANGED svars /\ UNCHANGED dvars

SpecG == Init /\ [][NextG]_vars

\* ------------------------------------------------------------------ claims

\* transport calls of key k's query function that are outstanding
Outstanding(k) == {x \in calls : x.key = k}

\* C1 as stated: at every moment and for every cache key at most one fetch for
\* that key is in flight
C1_AsStated == \A k \in Keys : Cardinality(Outstanding(k)) <= 1

\* C1 (amended): for every cache key at most one fetch is current at any
\* moment, and it exists exactly while the query is fetching and not waiting
\* for its retry; any other outstanding call of the key belongs to a fetch
\* that a refetch() or an invalidation cancelled
C1_OneCurrentFetch ==
    \A k \in Keys :
        LET live == {x \in Outstanding(k) : x.live}
        IN /\ Cardinality(live) <= 1
           /\ (live # {}) <=> (queries[k].fetchStatus = "fetching" /\ ~queries[k].retryWait)

\* a refetch() arrived while a fetch of a key holding data was pending: the
\* cancelled call and its replacement are both outstanding
C1_Witness ==
    \E x, y \in calls : x.key = y.key /\ x.live /\ ~y.live /\ waiters # {}

\* a caller acts on key k in this step: a reactive context starts observing an
\* adapter of the key, or refetch() hands out a promise for it
CallerActs(k) ==
    \/ \E q \in Adapters : AdapterKey(q) = k /\ atomObs'[q] > atomObs[q]
    \/ \E w \in waiters' \ waiters : w.key = k

Pending(k) == queries[k].fetchStatus = "fetching" /\ ~queries[k].retryWait

\* callers that joined the same fetch obtained the same result
SameResult ==
    \A c1, c2 \in 1..MaxCallers :
        (/\ obtained[c1].state = "resolved"
         /\ obtained[c2].state = "resolved"
         /\ obtained[c1].key = obtained[c2].key
         /\ obtained[c1].fetch = obtained[c2].fetch)
        => obtained[c1] = obtained[c2]

\* C2 as stated: a caller that acts while the fetch of its key is pending
\* causes no further invocation of the query function, and all callers obtain
\* the same result
C2_AsStated ==
    [][(\A k \in Keys : (Pending(k) /\ CallerActs(k)) => invoked'[k] = invoked[k])
       /\ SameResult']_vars

\* C2 (amended): a caller that acts while the fetch of a key that holds no
\* data yet is pending causes no further invocation of the query function; on
\* a key that holds data only a refetch() does, by exactly one invocation; and
\* callers that joined the same fetch obtain the same result
C2_SharedFetch ==
    [][(\A k \in Keys :
           (Pending(k) /\ CallerActs(k)) =>
               /\ ~queries[k].hasData => invoked'[k] = invoked[k]
               /\ invoked'[k] <= invoked[k] + 1
               /\ invoked'[k] = invoked[k] + 1 => \E w \in waiters' \ waiters : w.key = k)
       /\ SameResult']_vars

\* an observer started the first fetch of a key and two refetch() callers
\* joined it while it was pending: the query function ran once and both
\* promises resolved with the same data
C2_Witness ==
    \E k \in Keys :
        /\ invoked[k] = 1
        /\ \E q \in Adapters : AdapterKey(q) = k /\ atomObs[q] > 0
        /\ obtained[1].state = "resolved" /\ obtained[1].key = k /\ obtained[1].hasData
        /\ obtained[2].state = "resolved" /\ obtained[2].key = k
        /\ obtained[2].fetch = obtained[1].fetch

\* an explicit refetch() of key k happens in this step
RefetchCalled(k) == \E w \in waiters' \ waiters : w.key = k

\* after this step some reactive context observes an enabled adapter of key k
ObservedAfter(k) ==
    \E q \in Adapters : AdapterKey(q) = k /\ AdapterEnabled(q) /\ atomObs'[q] > 0

\* the query function of a key runs only when an enabled adapter of the key
\* is observed, when refetch() is called, or as the retry of a fetch that one
\* of these began and that has kept an observer or a caller; and the tracking
\* of a mutation adapter touches neither the cache nor the network
FetchOnlyOnDemand ==
    /\ \A k \in Keys :
          invoked'[k] > invoked[k] =>
              \/ ObservedAfter(k)
              \/ RefetchCalled(k)
              \/ queries[k].retryWait /\ ~queries[k].retryCancelled
    /\ mtrack' # mtrack => UNCHANGED <<queries, calls, invoked>>

\* adapter q gets its first observer in this step
FirstObserver(q) == atomObs[q] = 0 /\ atomObs'[q] = 1

\* C3 as stated: an adapter without observers performs no fetch and no cache
\* operation, a fetch begins only through observation or an explicit
\* refetch(), and the first observation of a MobxQuery whose key was never
\* fetched starts exactly one fetch
C3_AsStated ==
    [][/\ FetchOnlyOnDemand
       /\ \A q \in Adapters :
             (FirstObserver(q) /\ invoked[AdapterKey(q)] = 0)
                 => invoked'[AdapterKey(q)] = 1]_vars

\* C3 (amended): an adapter without observers performs no fetch and no cache
\* operation, a fetch begins only through observation or an explicit
\* refetch(), and the first observation of a MobxQuery whose key was never
\* fetched and holds no data starts exactly one fetch if the query is
\* enabled and none if it was constructed with enabled: false
C3_FetchOnObservation ==
    [][/\ FetchOnlyOnDemand
       /\ \A q \in Adapters :
             LET k == AdapterKey(q)
             IN (FirstObserver(q) /\ invoked[k] = 0 /\ ~queries[k].hasData) =>
                    IF AdapterEnabled(q)
                    THEN invoked'[k] = 1 /\ queries'[k].fetchStatus = "fetching"
                    ELSE invoked'[k] = 0 /\ queries'[k] = queries[k]]_vars

\* the enabled list query was observed and fetched once, the disabled by-id
\* query is observed and its key has still never been fetched
C3_Witness ==
    /\ atomObs["getAllGroupsQuery"] > 0
    /\ invoked[GroupsHttp] = 1
    /\ atomObs["getRoleQuery"] > 0
    /\ invoked[RoleHttp] = 0
    /\ queries[RoleHttp].fetchStatus = "idle"

\* 1 if the adapter is observed, else 0
Active(n) == IF n > 0 THEN 1 ELSE 0

\* C4: every adapter holds exactly one cache-observer listener and one
\* options reaction while it has at least one observer and none otherwise,
\* however often it was activated and deactivated
C4_OneRegistrationWhileObserved ==
    /\ \A q \in Adapters :
          /\ Cardinality(listeners[q]) = Active(atomObs[q])
          /\ Cardinality(reactions[q]) = Active(atomObs[q])
    /\ \A m \in Mutations :
          /\ Cardinality(mtrack[m].listeners) = Active(mtrack[m].atomObs)
          /\ Cardinality(mtrack[m].reactions) = Active(mtrack[m].atomObs)

\* a query adapter that was active has lost its last observer while a second
\* one and a mutation adapter are observed, the latter by two contexts
C4_Witness ==
    /\ atomObs["getAllGroupsQuery"] = 0
    /\ unsubscribe["getAllGroupsQuery"] # 0
    /\ atomObs["getRoleQuery"] = 1
    /\ \E m \in Mutations : mtrack[m].atomObs = 2

\* the promise of call c resolves in this step
Resolves(c) == mcalls[c].promise = "pending" /\ mcalls'[c].promise = "resolved"

\* the onSuccess callback of call c runs in this step
OnSuccessRuns(c) == mcalls'[c].onSuccessRuns > mcalls[c].onSuccessRuns

\* C5: for every mutate() call whose mutation function resolves, onSuccess
\* runs exactly once, after the mutation function resolved and before the
\* promise of mutate() resolves, so the cache is as onSuccess left it when
\* the promise resolves
C5_OnSuccessOnceBeforeResolve ==
    [][\A c \in DOMAIN mcalls :
          /\ mcalls'[c].onSuccessRuns <= 1
          /\ OnSuccessRuns(c) => mcalls[c].pc = "fnResolved" /\ mcalls[c].promise = "pending"
          /\ Resolves(c) =>
                 /\ mcalls[c].onSuccessRuns = 1
                 /\ mcalls'[c].onSuccessRuns = 1
                 /\ queries' = queries]_vars

\* a create resolved after its onSuccess ran once and wrote the users list
C5_Witness ==
    \E c \in DOMAIN mcalls :
        /\ mcalls[c].promise = "resolved"
        /\ mcalls[c].m.op = "create"
        /\ mcalls[c].onSuccessRuns = 1
        /\ queries[UsersHttp].hasData
        /\ \E i \in 1..Len(queries[UsersHttp].data) :
               queries[UsersHttp].data[i] = mcalls[c].value

\* MobxQuery.data as read from adapter q (undefined is the empty tuple of
\* an entry that holds no data)
ReadOf(Q, q) ==
    IF Q[AdapterKey(q)].hasData
    THEN [defined |-> TRUE, value |-> Q[AdapterKey(q)].data]
    ELSE [defined |-> FALSE, value |-> <<>>]

\* C6: once the promise of a successful mutate() has resolved, every
\* MobxQuery on the key written in onSuccess reads the written value, and no
\* step of the mutation has invoked the query function of that key
C6_WriteVisibleWithoutFetch ==
    [][\A c \in DOMAIN mcalls :
          LET m == mcalls[c].m
              k == StoreKey(m.store)
              onKey == {q \in Adapters : AdapterKey(q) = k}
          IN /\ OnSuccessRuns(c) =>
                    /\ \A q \in onKey :
                           ReadOf(queries', q) =
                               [defined |-> TRUE,
                                value |-> Updated(m, OldList(queries[k]), mcalls[c].data)]
                    /\ queries'[k].status = "success"
                    /\ ~queries'[k].invalidated
             /\ Resolves(c) =>
                    \A q \in onKey : ReadOf(queries', q) = ReadOf(queries, q)
             /\ mcalls'[c] # mcalls[c] =>
                    /\ invoked'[k] = invoked[k]
                    /\ {x \in calls' : x.key = k} = {x \in calls : x.key = k}]_vars

\* an update resolved while the observed users list was idle: the list holds
\* the updated record and was fetched once only
C6_Witness ==
    \E c \in DOMAIN mcalls :
        /\ mcalls[c].promise = "resolved"
        /\ mcalls[c].m.op = "update"
        /\ atomObs["getAllUsersQuery"] > 0
        /\ invoked[UsersHttp] = 1
        /\ queries[UsersHttp].fetchStatus = "idle"
        /\ \E i \in 1..Len(queries[UsersHttp].data) :
               queries[UsersHttp].data[i] = mcalls[c].value

\* list s without the records whose id is i, order kept
RECURSIVE Without(_, _)
Without(s, i) ==
    IF s = <<>> THEN <<>>
    ELSE IF Head(s).id = i THEN Without(Tail(s), i)
         ELSE <<Head(s)>> \o Without(Tail(s), i)

\* C7: a successful create leaves the previous cached list with the new
\* record appended at the end; an update leaves it with exactly the records
\* of the matching id replaced in place; a delete leaves it without the
\* records of the deleted id (an absent list counts as empty)
C7_ListAfterMutation ==
    [][\A c \in DOMAIN mcalls :
          OnSuccessRuns(c) =>
              LET m == mcalls[c].m
                  rec == mcalls[c].data
                  old == OldList(queries[StoreKey(m.store)])
                  new == queries'[StoreKey(m.store)].data
              IN CASE m.op = "create" ->
                          /\ Len(new) = Len(old) + 1
                          /\ \A i \in 1..Len(old) : new[i] = old[i]
                          /\ new[Len(new)] = rec
                   [] m.op = "update" ->
                          /\ Len(new) = Len(old)
                          /\ \A i \in 1..Len(old) :
                                 /\ old[i].id = mcalls[c].arg => new[i] = rec
                                 /\ old[i].id # mcalls[c].arg => new[i] = old[i]
                   [] m.op = "delete" ->
                          new = Without(old, mcalls[c].arg)]_vars

\* a delete has removed a record from a fetched list of two, and a create has
\* appended one
C7_Witness ==
    /\ \E c \in DOMAIN mcalls :
           /\ mcalls[c].promise = "resolved"
           /\ mcalls[c].m.op = "delete"
           /\ mcalls[c].arg = 1
    /\ \E c \in DOMAIN mcalls :
           /\ mcalls[c].promise = "resolved"
           /\ mcalls[c].m.op = "create"
    /\ invoked[UsersHttp] = 1
    /\ queries[UsersHttp].data = <<Rec(2, 1), Rec(3, 1)>>

\* data and stale flag of every cache entry
CacheContent(Q) ==
    [k \in Keys |-> [hasData |-> Q[k].hasData, data |-> Q[k].data,
                     invalidated |-> Q[k].invalidated]]

\* C8: if the mutation function rejects, onSuccess is not invoked and no step
\* of that mutate() call changes the data or the stale flag of any cache
\* entry
C8_FailureLeavesCache ==
    [][\A c \in DOMAIN mcalls :
          (/\ mcalls'[c] # mcalls[c]
           /\ mcalls'[c].pc = "sent" \/ mcalls'[c].error # NoError) =>
              /\ CacheContent(queries') = CacheContent(queries)
              /\ invoked' = invoked
              /\ mcalls'[c].onSuccessRuns = 0]_vars

\* a mutate() call was rejected while the users list holds fetched data
C8_Witness ==
    \E c \in DOMAIN mcalls :
        /\ mcalls[c].promise = "rejected"
        /\ mcalls[c].reason \in Errors
        /\ queries[UsersHttp].hasData
        /\ atomObs["getAllUsersQuery"] > 0

\* the promise of call c settles in this step
Settles(c) == mcalls[c].promise = "pending" /\ mcalls'[c].promise # "pending"

\* the promise of a call whose mutation function rejected with E rejects with E
RejectsWithSameError(c) ==
    /\ mcalls'[c].promise = "rejected"
    /\ mcalls'[c].reason = mcalls[c].error

\* C9, read for the latest mutate() call of an adapter that was not reset
\* since: when its mutation function rejects with error E, the promise of
\* mutate() rejects with that same E, and afterwards the adapter's status has
\* isError = true, isSuccess = false and error = E
C9_AsStated ==
    [][\A c \in DOMAIN mcalls :
          (/\ Settles(c)
           /\ mcalls[c].error # NoError
           /\ mobserver[mcalls[c].m].current = c) =>
              /\ RejectsWithSameError(c)
              /\ mobserver'[mcalls[c].m].result =
                     [status |-> "error", data |-> NoRec, error |-> mcalls[c].error]]_vars

\* cache keys of the group lists
GroupKeys == {k \in Keys : IsPrefix(<<"groups">>, k)}

AccessKeys == {k \in Keys : IsPrefix(<<"access">>, k)}

\* C11: every successful group mutation (create, update or delete), through
\* either group store, has marked every cache entry whose key starts with
\* 'access' stale when its mutate() promise resolves
C11_GroupMutationsInvalidateAccess ==
    [][\A c \in DOMAIN mcalls :
          (Resolves(c) /\ mcalls[c].m.store \in {"groupsHttp", "groupsWs"}) =>
              /\ AccessKeys = {AccessHttp, AccessWs, AccessSubjectHttp, AccessSubjectWs}
              /\ \A k \in AccessKeys : queries'[k].invalidated]_vars

\* a group create through the WebSocket store resolved after the HTTP access
\* list had been fetched: the list still holds its data, is stale and is
\* being refetched
C11_Witness ==
    \E c \in DOMAIN mcalls :
        /\ mcalls[c].promise = "resolved"
        /\ mcalls[c].m = [store |-> "groupsWs", op |-> "create"]
        /\ \A k \in AccessKeys : queries[k].invalidated
        /\ queries[AccessHttp].hasData
        /\ queries[AccessHttp].fetchStatus = "fetching"
        /\ invoked[AccessHttp] = 2

\* key k is marked stale in this step
MarkedStale(k) == ~queries[k].invalidated /\ queries'[k].invalidated

\* C12 as stated: when a key is marked stale while an enabled MobxQuery on
\* it is observed, exactly one refetch of the key is started; when none is
\* observed, no fetch is started until a MobxQuery on the key is next
\* observed, and that observation starts exactly one fetch
C12_AsStated ==
    [][\A k \in Keys :
          /\ (MarkedStale(k) /\ IsActive(listeners, k)) => invoked'[k] = invoked[k] + 1
          /\ (MarkedStale(k) /\ ~IsActive(listeners, k)) => invoked'[k] = invoked[k]
          /\ \A q \in Adapters :
                 (/\ AdapterKey(q) = k
                  /\ AdapterEnabled(q)
                  /\ FirstObserver(q)
                  /\ ~HasObservers(listeners, k)
                  /\ queries[k].invalidated) => invoked'[k] = invoked[k] + 1]_vars

\* the key filters the stores pass to invalidateQueries, in mutation
\* callbacks and in notification handlers
InvalidationKeys == {<<"groups">>, <<"access">>, RolesWs, UsersWs, GroupsWs, AccessWs}

StaleKeys(W) == {k \in Keys : W.q[k].invalidated}

Hit(p) == {k \in Keys : IsPrefix(p, k)}

Invalidate(W, p) == InvalidateQueries(W, listeners, p)

\* in any order and with repetitions, invalidations leave exactly the keys
\* stale that were stale before or match one of the filters
StaleSetIsUnion ==
    /\ \A p \in InvalidationKeys :
           /\ StaleKeys(Invalidate(World, p)) = StaleKeys(World) \cup Hit(p)
           /\ StaleKeys(Invalidate(Invalidate(World, p), p)) = StaleKeys(World) \cup Hit(p)
    /\ \A p1, p2 \in InvalidationKeys :
           p1 # p2 =>
               StaleKeys(Invalidate(Invalidate(World, p1), p2))
                   = StaleKeys(World) \cup Hit(p1) \cup Hit(p2)

\* C13 as stated: the stale set after invalidations in any order and with
\* repetitions is the one after each distinct invalidation once, and marking
\* an already stale key again invokes no query function
C13_AsStated ==
    /\ StaleSetIsUnion
    /\ \A p \in InvalidationKeys :
           Invalidate(Invalidate(World, p), p).n = Invalidate(World, p).n

\* C13 (amended): the stale set after invalidations in any order and with
\* repetitions is the one after each distinct invalidation once; marking an
\* already stale key again leaves at most one current fetch per key, and it
\* invokes the query function once more exactly for the matched keys that
\* are observed through an enabled adapter and hold data, whose pending
\* fetch it cancels
C13_StaleMarkingIdempotent ==
    /\ StaleSetIsUnion
    /\ \A p \in InvalidationKeys :
           LET W1 == Invalidate(World, p)
               W2 == Invalidate(W1, p)
           IN \A k \in Keys :
                  /\ Cardinality({x \in W2.c : x.key = k /\ x.live}) <= 1
                  /\ W2.q[k].fetchStatus = W1.q[k].fetchStatus
                  /\ W2.n[k] = IF k \in Hit(p) /\ IsActive(listeners, k) /\ W1.q[k].hasData
                               THEN W1.n[k] + 1
                               ELSE W1.n[k]

\* two notifications reached an observed list holding data with no fetch
\* completing in between and no refetch() ever called: the key is stale,
\* the fetch of the first notification was cancelled by the second
C13_Witness ==
    /\ queries[GroupsHttp].invalidated
    /\ queries[GroupsHttp].hasData
    /\ queries[GroupsHttp].fetchStatus = "fetching"
    /\ IsActive(listeners, GroupsHttp)
    /\ \E x, y \in calls : x.key = GroupsHttp /\ y.key = GroupsHttp /\ x.live /\ ~y.live
    /\ waiters = {}
    /\ \A c \in 1..MaxCallers : obtained[c] = Unused

\* keys of the WebSocket store's entries of an entity
WsKeys(X) == {k \in Keys : IsPrefix(<<X, "websocket">>, k)}

SameData == \A k \in Keys : /\ queries'[k].data = queries[k].data
                            /\ queries'[k].hasData = queries[k].hasData

\* C14: the delivery of a created, updated or deleted notification of users,
\* roles or groups marks every entry whose key starts with the entity's
\* [X, 'websocket'] stale and changes the data of no entry
C14_NotificationMarksStaleOnly ==
    [][/\ OnUsersEvent => (SameData /\ \A k \in WsKeys("users") : queries'[k].invalidated)
       /\ OnRolesEvent => (SameData /\ \A k \in WsKeys("roles") : queries'[k].invalidated)
       /\ OnGroupsEvent => (SameData /\ \A k \in WsKeys("groups") : queries'[k].invalidated)]_vars

\* a users notification reached a client whose observed WebSocket list holds
\* data: the list is stale, still holds its data and is being refetched
C14_Witness ==
    /\ queries[UsersWs].invalidated
    /\ queries[UsersWs].hasData
    /\ queries[UsersWs].data # <<>>
    /\ queries[UsersWs].fetchStatus = "fetching"
    /\ invoked[UsersWs] = 2

\* the list keys the read-by-id helpers of the group and access stores read
ByIdKeys == {GroupsHttp, GroupsWs, AccessHttp, AccessWs}

Holds(e, id) == e.hasData /\ \E i \in 1..Len(e.data) : e.data[i].id = id

\* C16: a read by id returns a record of the cached list of the store's own
\* key with that id and makes no transport call if the list holds one; if
\* the list is absent or lacks the id it makes exactly one single-record
\* transport call and hands on its result (the record, or the error of a
\* failure envelope)
C16_ReadByIdCacheFirst ==
    \A k \in ByIdKeys, id \in 1..3 : \A response \in Responses(id) :
        LET e == queries[k]
            r == GetById(e, id, response)
        IN IF Holds(e, id)
           THEN /\ r.transportCalls = 0
                /\ r.outcome = "returned"
                /\ r.rec.id = id
                /\ \E i \in 1..Len(e.data) : e.data[i] = r.rec
           ELSE /\ r.transportCalls = 1
                /\ response.success => (r.outcome = "returned" /\ r.rec = response.data)
                /\ ~response.success => (r.outcome = "thrown" /\ r.error = response.error)

\* one store's cached list holds a record with id 2 and lacks id 3, another
\* store's list is absent
C16_Witness ==
    /\ Holds(queries[GroupsHttp], 2)
    /\ ~Holds(queries[GroupsHttp], 3)
    /\ Len(queries[GroupsHttp].data) = 2
    /\ ~queries[GroupsWs].hasData
    /\ Holds(queries[AccessHttp], 1)

\* the mutate() calls made on adapter m so far
CallsOf(m) == {c \in DOMAIN mcalls : mcalls[c].pc # "unused" /\ mcalls[c].m = m}

\* the call of adapter m that was started last
LastStarted(m) == CHOOSE c \in CallsOf(m) : \A d \in CallsOf(m) : d <= c

\* C17 as stated: when a call settles after another call of the same adapter
\* that was pending together with it, the adapter's status becomes that of
\* the call settling now, whichever was started first (read for an adapter
\* whose observer is attached and which was not reset)
C17_AsStated ==
    [][\A c, d \in DOMAIN mcalls :
          (/\ c # d
           /\ mcalls[c].m = mcalls[d].m
           /\ mcalls[d].pc = "settled"
           /\ Settles(c)
           /\ mobserver[mcalls[c].m].attached) =>
              mobserver'[mcalls[c].m].result = MutationState(mcalls'[c])]_vars

\* once all calls of an adapter have settled, the status of an adapter whose
\* observer is attached is that of the call started last
StatusOfLastStarted ==
    \A m \in Mutations :
        (/\ Cardinality(CallsOf(m)) >= 2
         /\ \A c \in CallsOf(m) : mcalls[c].pc = "settled"
         /\ mobserver[m].attached) =>
            mobserver[m].result = MutationState(mcalls[LastStarted(m)])

\* C17 (amended): once both calls have settled, the adapter's status is that
\* of the call that was started last, whichever of the two settled last, as
\* long as its observer stayed attached; the settlement of the call started
\* earlier leaves the status as it is
C17_StatusFollowsLastStarted ==
    [][/\ StatusOfLastStarted'
       /\ \A c \in DOMAIN mcalls :
              (Settles(c) /\ c # LastStarted(mcalls[c].m)) =>
                  mobserver'[mcalls[c].m].result = mobserver[mcalls[c].m].result]_vars

\* the second call has resolved and the status shows its success while the
\* first call, which failed, is about to settle last
C17_Witness ==
    /\ mcalls[2].pc = "settled"
    /\ mcalls[2].promise = "resolved"
    /\ mcalls[1].pc = "callbackDone"
    /\ mcalls[1].error = "E1"
    /\ mcalls[1].m = mcalls[2].m
    /\ mobserver[mcalls[1].m].attached
    /\ mobserver[mcalls[1].m].current = 2
    /\ mobserver[mcalls[1].m].result.status = "success"

\* mutate() is called in this step; it takes call slot c
Starts(c) == mcalls[c].pc = "unused" /\ mcalls'[c].pc # "unused"

\* C18: a mutate() issued while an earlier call of the adapter is unsettled
\* sends its own request at once and leaves the earlier call as it is; every
\* call's promise settles with the outcome of its own mutation function, and
\* onSuccess has run exactly once for a call that succeeded and never for one
\* that failed
C18_CallsAreIndependent ==
    [][\A c \in DOMAIN mcalls :
          /\ Starts(c) =>
                 /\ mcalls'[c].pc = "sent"
                 /\ \A d \in DOMAIN mcalls \ {c} : mcalls'[d] = mcalls[d]
          /\ (mcalls[c].pc # "unused" /\ ~Settles(c)) => mcalls'[c].promise = mcalls[c].promise
          /\ Settles(c) =>
                 /\ \A d \in DOMAIN mcalls \ {c} : mcalls'[d] = mcalls[d]
                 /\ IF mcalls[c].error = NoError
                    THEN /\ mcalls'[c].promise = "resolved"
                         /\ mcalls'[c].value = mcalls[c].data
                         /\ mcalls[c].data # NoRec
                         /\ mcalls'[c].onSuccessRuns = 1
                    ELSE /\ mcalls'[c].promise = "rejected"
                         /\ mcalls'[c].reason = mcalls[c].error
                         /\ mcalls'[c].onSuccessRuns = 0]_vars

\* the second call, issued while the first was unsettled, has failed with its
\* own error while the first has succeeded, has run onSuccess once and is
\* about to resolve
C18_Witness ==
    /\ mcalls[2].pc = "settled"
    /\ mcalls[2].promise = "rejected"
    /\ mcalls[2].reason = "E2"
    /\ mcalls[2].onSuccessRuns = 0
    /\ mcalls[1].pc = "callbackDone"
    /\ mcalls[1].error = NoError
    /\ mcalls[1].data = Rec(2, 1)
    /\ mcalls[1].onSuccessRuns = 1
    /\ mcalls[1].m = mcalls[2].m

\* the cached list of key k is the list the server holds
InSync(k) == queries[k].hasData /\ queries[k].data = database[EntityOf(k)]

\* C15: while the roles list of the WebSocket store is observed, with every
\* request answered and every message delivered, the cached
\* ['roles','websocket'] list eventually equals the server's list of roles
\* for good once the writes have stopped
C15_WebSocketListConverges ==
    <>[](atomObs["getAllRolesQueryWs"] > 0 => InSync(RolesWs))

\* after a write of another client and a create of this client the observed
\* list holds the server's three records and nothing is in flight
C15_Witness ==
    /\ atomObs["getAllRolesQueryWs"] > 0
    /\ InSync(RolesWs)
    /\ Len(database["roles"]) = 3
    /\ writes = 2
    /\ mcalls[1].promise = "resolved"
    /\ socket = <<>>
    /\ calls = {}

\* C19 as stated: with the roles lists of both stores observed, every request
\* answered and every message delivered, the HTTP list and the WebSocket list
\* of the client eventually show the server's roles for good, whoever wrote
\* them and through whichever transport
C19_AsStated ==
    <>[]((atomObs["getAllRolesQuery"] > 0 /\ atomObs["getAllRolesQueryWs"] > 0)
             => (InSync(RolesHttp) /\ InSync(RolesWs)))

\* GroupsPageState.accessRecords
accessRecords ==
    IF queries[AccessHttp].hasData THEN queries[AccessHttp].data ELSE <<>>

\* C20 as stated: with the Groups page open, every request answered and every
\* message delivered, the access matrix of the client eventually shows the
\* access records other clients have toggled on the server
C20_AsStated ==
    <>[](atomObs["getAllAccessQuery"] > 0 => accessRecords = database["access"])

\* a role update or delete of call c has succeeded
RoleChangeResolved(c) ==
    /\ mcalls[c].promise = "resolved"
    /\ mcalls[c].m.store \in {"rolesHttp", "rolesWs"}
    /\ mcalls[c].m.op \in {"update", "delete"}

\* C21 as stated: after a successful role update or delete the cache entries
\* whose key starts with 'access' are eventually marked stale, as the groups
\* entries are
C21_AsStated ==
    (\E c \in DOMAIN mcalls : RoleChangeResolved(c))
        ~> (\A k \in AccessKeys : queries[k].invalidated)

\* the fetch of key k fails for good in this step
FetchFails(k) ==
    /\ queries[k].fetchStatus = "fetching"
    /\ queries'[k].fetchStatus = "idle"
    /\ queries'[k].failureCount > 0

OnKey(k) == {q \in Adapters : AdapterKey(q) = k}

\* C23: refetch() on a MobxQuery whose key has no observer invokes the query
\* function once, also when the cached data is fresh (it only joins a first
\* fetch that is still pending); when the fetch succeeds its list is the
\* data every MobxQuery on the key reads next, and the promises of the
\* waiting refetch() callers resolve with it
C23_RefetchWithoutObservers ==
    [][\A q \in SAdapters :
          LET k == AdapterKey(q)
          IN /\ \A c \in 1..MaxCallers :
                    (/\ Refetch(q, c)
                     /\ ~HasObservers(listeners, k)
                     /\ queries[k].hasData \/ queries[k].fetchStatus = "idle") =>
                        /\ invoked'[k] = invoked[k] + 1
                        /\ queries'[k].fetchStatus = "fetching"
                        /\ \E x \in calls' \ calls : x.key = k /\ x.live
             /\ \A x \in calls, d \in SLists :
                    (/\ DeliverData(x, d)
                     /\ x.key = k
                     /\ x.live
                     /\ ~HasObservers(listeners, k)) =>
                        /\ \A q2 \in OnKey(k) :
                               /\ Result(q2)'.hasData
                               /\ Result(q2)'.data = d
                               /\ Result(q2)'.isSuccess
                        /\ \A w \in waiters :
                               w.key = k =>
                                   /\ obtained'[w.caller].state = "resolved"
                                   /\ obtained'[w.caller].data = d]_vars

\* the groups list was never observed and no mutation was made; a first
\* fetch delivered the list, and while it is fresh the refetch() of a second
\* caller has its fetch in flight
C23_Witness ==
    /\ \A q \in Adapters : atomObs[q] = 0 /\ listeners[q] = {}
    /\ mcalls[1].pc = "unused"
    /\ queries[GroupsHttp].hasData
    /\ ~IsStale(queries[GroupsHttp])
    /\ queries[GroupsHttp].fetchStatus = "fetching"
    /\ queries[GroupsHttp].fetchId = 2
    /\ invoked[GroupsHttp] = 2
    /\ obtained[1].state = "resolved"
    /\ obtained[1].data = <<Rec(1, 1)>>
    /\ \E w \in waiters : w.caller = 2 /\ w.fetch = 2

\* the refetch() callers whose promise waits on key k
WaitingOn(k) == {w.caller : w \in {v \in waiters : v.key = k}}

\* C24 as stated: when the fetch started by refetch() fails, the promise
\* refetch() returned rejects with the fetch error, and the adapter then
\* reports isError = true with that error
C24_AsStated ==
    [][\A q \in SAdapters :
          LET k == AdapterKey(q)
          IN FetchFails(k) =>
                 /\ \A c \in WaitingOn(k) :
                        /\ obtained'[c].state = "rejected"
                        /\ obtained'[c].error = queries'[k].failureReason
                 /\ Result(q)'.isError
                 /\ Result(q)'.error = queries'[k].failureReason]_vars

\* C24 (amended): when the fetch started by refetch() fails, the promise
\* refetch() returned resolves, with a result whose isError is true and whose
\* error is the fetch error, and the adapter then reports isError = true with
\* that error
C24_FailureResolvesWithErrorResult ==
    [][\A q \in SAdapters :
          LET k == AdapterKey(q)
          IN FetchFails(k) =>
                 /\ queries'[k].failureReason \in Errors
                 /\ \A c \in WaitingOn(k) :
                        /\ obtained'[c].state = "resolved"
                        /\ obtained'[c].isError
                        /\ obtained'[c].error = queries'[k].failureReason
                 /\ Result(q)'.isError
                 /\ Result(q)'.error = queries'[k].failureReason]_vars

\* the fetch of a refetch() on the never observed groups list failed, and so
\* did its retry: the caller's promise has resolved with the error result and
\* the adapter reports the error
C24_Witness ==
    /\ \A q \in Adapters : atomObs[q] = 0 /\ listeners[q] = {}
    /\ obtained[1].state = "resolved"
    /\ obtained[1].isError
    /\ obtained[1].error = "E1"
    /\ ~obtained[1].hasData
    /\ queries[GroupsHttp].failureCount = Retry + 1
    /\ Result("getAllGroupsQuery").isError
    /\ Result("getAllGroupsQuery").error = "E1"

\* C25: reset() on a MobxMutation leaves its status idle (no data, no error,
\* not pending, not success) and changes no cache entry (data and stale flag
\* of every key stay as they were), also while a call is still pending
C25_ResetLeavesCache ==
    [][\A m \in SMutations :
          Reset(m) =>
              /\ MutationResult(m)' =
                     [outcome |-> "returned", data |-> NoRec, isIdle |-> TRUE,
                      isPending |-> FALSE, isError |-> FALSE, isSuccess |-> FALSE,
                      error |-> NoError]
              /\ \A k \in Keys :
                     /\ queries'[k].hasData = queries[k].hasData
                     /\ queries'[k].data = queries[k].data
                     /\ queries'[k].invalidated = queries[k].invalidated
                     /\ IsStale(queries'[k]) = IsStale(queries[k])
              /\ calls' = calls /\ invoked' = invoked]_vars

\* a create succeeded, wrote the groups list and marked the access entries
\* stale, and the adapter was reset afterwards: status idle, cache as written
C25_Witness ==
    /\ mcalls[1].promise = "resolved"
    /\ MutationResult([store |-> "groupsHttp", op |-> "create"]).isIdle
    /\ ~mobserver[[store |-> "groupsHttp", op |-> "create"]].attached
    /\ queries[GroupsHttp].hasData
    /\ queries[GroupsHttp].data = <<Rec(1, 1), Rec(2, 1)>>
    /\ queries[AccessHttp].invalidated

\* C26 as stated: while a MobxMutation is observed, the options its
\* configProducer returns are applied at every status read, so that a
\* mutate() issued while it is observed runs with the mutationFn and
\* onSuccess that configProducer returns at that moment
C26_AsStated ==
    [][(MutateConfigured /\ mtrack[DMutation].atomObs > 0) =>
           taken'[NextCall] = config.mutation]_vars

\* C27: every read of MobxQuery.result, in or outside a reactive context,
\* leaves the observer with the key configProducer returns at that moment
\* and returns the data of that key's cache entry
C27_ResultOfCurrentKey ==
    [][\A q \in KAdapters :
          (ReadResult(q) \/ ObserveResult(q)) =>
              /\ AdapterKey(q)' = config.query
              /\ lastRead'.key = config.query
              /\ lastRead'.hasData = queries'[config.query].hasData
              /\ lastRead'.data = queries'[config.query].data]_vars

\* the producer, which returned ['groups','http'] at construction, returns
\* ['groups','websocket'] now; the two entries hold different lists, and the
\* last read returned the list of the key produced now and left the observer
\* on that key
C27_Witness ==
    /\ config.query = GroupsWs
    /\ options.query = GroupsWs
    /\ lastRead.key = GroupsWs
    /\ lastRead.hasData
    /\ queries[GroupsHttp].hasData
    /\ lastRead.data = queries[GroupsWs].data
    /\ lastRead.data # queries[GroupsHttp].data

\* C28: whenever the server answered a write with a failure envelope
\* {success: false, error: E}, the promise of mutate() is rejected with an
\* Error whose message is E, and the status of an adapter still attached to
\* the call reports an error with message E, for HTTP and WebSocket stores
C28_AsStated ==
    \A c \in DOMAIN mcalls :
        (mcalls[c].pc = "settled" /\ answered[c] # NoAnswer) =>
            /\ mcalls[c].promise = "rejected"
            /\ mcalls[c].reason = answered[c].body.error
            /\ (mobserver[mcalls[c].m].attached /\ mobserver[mcalls[c].m].current = c) =>
                   /\ MutationResult(mcalls[c].m).isError
                   /\ MutationResult(mcalls[c].m).error = answered[c].body.error

FetchCompletes(k) ==
    \E x \in calls, d \in ILists : x.key = k /\ x.live /\ DeliverData(x, d)

\* the onSuccess of a mutation writes the list of key k
DirectWrite(k) ==
    \E c \in DOMAIN mcalls :
        /\ mcalls[c].pc = "fnResolved"
        /\ StoreKey(mcalls[c].m.store) = k
        /\ RunCallbacks(c)

C31_SubmitFormClosesOnSuccessOnly ==
    [][\A c \in DOMAIN mcalls :
          /\ (submits[c].state = "none" /\ submits'[c].state # "none") =>
                 /\ submits'[c].state = "awaiting"
                 /\ mcalls'[c].m = [store |-> "usersHttp",
                                    op |-> IF editingUser # 0 THEN "update" ELSE "create"]
                 /\ mcalls'[c].arg = editingUser
                 /\ submits'[c].data = formData
                 /\ mcalls'[c].promise = "pending"
          /\ (submits[c].state = "awaiting" /\ submits'[c].state # "awaiting") =>
                 /\ submits'[c].state = "returned"
                 /\ mcalls'[c].promise \in {"resolved", "rejected"}
                 /\ mcalls'[c].promise = "resolved" =>
                        (~isModalOpen' /\ editingUser' = 0 /\ formData' = 0)
                 /\ mcalls'[c].promise = "rejected" =>
                        UNCHANGED <<isModalOpen, editingUser, formData>>]_vars

\* the update of record 1 submitted from the form was rejected: submitForm
\* has returned and the modal is still open on record 1 with the typed value
C31_Witness ==
    \E c \in DOMAIN mcalls :
        /\ submits[c] = [state |-> "returned", id |-> 1, data |-> 2]
        /\ mcalls[c].m.op = "update"
        /\ mcalls[c].promise = "rejected"
        /\ isModalOpen
        /\ editingUser = 1
        /\ formData = 2

\* C37 as stated: when a submission completes while the modal is open on
\* another record than the one submitted, the completion leaves isModalOpen,
\* editingUser and formData of that session as they are
C37_AsStated ==
    [][\A c \in DOMAIN mcalls :
          (/\ submits[c].state = "awaiting" /\ submits'[c].state = "returned"
           /\ isModalOpen /\ editingUser # submits[c].id) =>
              UNCHANGED <<isModalOpen, editingUser, formData>>]_vars

\* C32 as stated: the onSuccess of a create, update or delete that succeeded
\* gives data to no cache entry that held none: a list that was not cached
\* when the mutation succeeded is not cached afterwards
C32_AsStated ==
    [][\A c \in DOMAIN mcalls :
          (mcalls[c].pc = "fnResolved" /\ mcalls'[c].pc = "callbackDone") =>
              \A k \in Keys : ~queries[k].hasData => ~queries'[k].hasData]_vars

\* no request of the client is unanswered and no continuation is waiting
NothingInFlight ==
    /\ calls = {}
    /\ responses = {}
    /\ running = 0
    /\ \A c \in DOMAIN mcalls : mcalls[c].pc \in {"unused", "settled"}
    /\ \A k \in Keys : queries[k].fetchStatus = "idle"

\* C33 as stated: with one client that is the only writer and uses the HTTP
\* store, whenever no fetch and no mutation is in flight a cached roles list
\* that is not stale is the server's list of roles
C33_AsStated ==
    (NothingInFlight /\ queries[RolesHttp].hasData /\ ~IsStale(queries[RolesHttp])) =>
        InSync(RolesHttp)

\* the notifications the server has emitted and the client has yet to get
Broadcasts == Len(SelectSeq(socket, LAMBDA msg : msg.type = "event"))

\* the server answers the write of call c with a failure in this step
Refused(c) == Answered("mfail", c)

\* C34 as stated: a write request that fails broadcasts nothing, over HTTP
\* as well as over the socket: the step in which the server answers a
\* failure emits no notification
C34_AsStated ==
    [][\A c \in DOMAIN mcalls : (~Refused(c) /\ Refused(c)') => Broadcasts' <= Broadcasts]_vars

\* the group list the server holds for the user of the clicked row
ServerGroups == AccessOf(database["access"], Subject).v

\* C35 as stated: when toggles of one user for different groups have
\* succeeded and none is in flight, the user's group list on the server
\* reflects each of them: every toggled group has changed sides with
\* respect to the initial list (group 1 only)
C35_AsStated ==
    (\A c \in DOMAIN mcalls : mcalls[c].pc \in {"unused", "settled"}) =>
        \A g \in applied : Includes(ServerGroups, g) # Includes(1, g)

\* every getGroupById() request of the profile page has settled
LoadsSettled == \A n \in DOMAIN loads : loads[n].state # "pending"

\* C36 as stated: once the requests of all loadGroup() calls have settled
\* (none of them failed), the profile state matches the last call: the group
\* shown is the one of the id asked for last with the loading flag down, or
\* no group is shown when clear() was called last
C36_AsStated ==
    (LoadsSettled /\ loadError = NoError) =>
        /\ ~isLoading
        /\ IF groupId = 0 THEN group = NoRec ELSE group.id = groupId

\* a transport call is answered in this step (a fetch completes or fails)
FetchAnswered == calls' # calls /\ calls' \subseteq calls

\* no fetch is in flight
NoFetchInFlight == calls = {} /\ \A k \in Keys : queries[k].fetchStatus = "idle"

\* C38: invalidation does not cascade. The step that answers a fetch marks
\* no key stale and starts no fetch; a fetch is started once at a time, for
\* an observed key that is stale (marked, or without data) or as the retry
\* of a failed fetch, of which there is one; and when every fetch settles
\* the client comes to rest with no fetch in flight
C38_InvalidationDoesNotCascade ==
    /\ [][/\ FetchAnswered =>
                /\ invoked' = invoked
                /\ \A k \in Keys : queries'[k].invalidated => queries[k].invalidated
          /\ \A k \in Keys :
                /\ invoked'[k] <= invoked[k] + 1
                /\ queries'[k].failureCount <= Retry + 1
                /\ invoked'[k] > invoked[k] =>
                       /\ IsActive(listeners', k)
                       /\ \/ queries[k].retryWait /\ queries[k].failureCount <= Retry
                          \/ IsStale(queries'[k])]_vars
    /\ <>[]NoFetchInFlight

\* a notification has marked the observed roles list, whose refetch failed,
\* was retried once and has settled with the list, and nothing is in flight
C38_Witness ==
    /\ NoFetchInFlight
    /\ invoked[RolesWs] = 3
    /\ queries[RolesWs].hasData
    /\ ~queries[RolesWs].invalidated
    /\ atomObs["getAllRolesQueryWs"] > 0

\* C39: the promise of WebSocketApi.emit settles once: a settled promise
\* keeps its state, value and reason; an acknowledgement that arrives while
\* the timer is armed resolves it with the acknowledgement; the timer firing
\* rejects it with the timeout error; an acknowledgement that arrives after
\* the timeout changes nothing of the promise; and the event is handed to
\* the socket once
C39_EmitSettlesOnce ==
    [][\A e \in DOMAIN emits :
          LET x == emits[e]
              y == emits'[e]
          IN /\ x.promise \in {"resolved", "rejected"} =>
                    /\ y.promise = x.promise
                    /\ y.value = x.value
                    /\ y.reason = x.reason
             /\ (x.wire = "ack" /\ y.wire = "none" /\ x.timer = "armed") =>
                    /\ y.promise = "resolved"
                    /\ y.value = x.ack
                    /\ y.timer = "cleared"
             /\ (x.timer = "armed" /\ y.timer = "fired") =>
                    /\ y.promise = "rejected"
                    /\ y.reason = TimeoutError(x.event)
             /\ (x.promise = "pending" /\ y.promise # "pending") =>
                    (x.wire = "ack" /\ y.wire = "none") \/ (x.timer = "armed" /\ y.timer = "fired")
             /\ x.sent > 0 => y.sent = 1]_vars

\* an acknowledgement has arrived after the timeout rejected the promise
C39_Witness ==
    \E e \in DOMAIN emits :
        /\ emits[e].promise = "rejected"
        /\ emits[e].timer = "fired"
        /\ emits[e].wire = "none"
        /\ emits[e].ack # NoAnswer
        /\ emits[e].sent = 1

====
